---------------------------- MODULE Spec2Model ----------------------------
(***************************************************************************)
(* A model of the scattering-potential-to-image pipeline of jax-2dtm /     *)
(* cryojax.                                                                *)
(*                                                                         *)
(* Arithmetic is fixed point over the integers.  Lengths are counted in    *)
(* half angstroms, so that `grid - voxel_size / 2` is exact for the even   *)
(* voxel sizes of VoxelSizes; Gaussian widths are in square angstroms;     *)
(* the argument of erf is counted in units of pi/16 and its value in       *)
(* hundredths.  Arrays are 1-based functions: an array of shape (n, m, k)  *)
(* is a sequence of n sequences of m sequences of k integers; the python   *)
(* index i is the index i + 1 here.                                        *)
(***************************************************************************)
EXTENDS Integers, Sequences, FiniteSets, TLC

(***************************************************************************)
(* Bounds of the model.                                                    *)
(***************************************************************************)
MaxZ == 5
MaxYX == 2
MaxAtoms == 2
MaxPotentials == 3
MaxTheories == 2
MaxSubunits == 2
MaxFilters == 2

VARIABLES
    \* ---- one call of _build_real_space_voxel_potential_from_atoms ----
    args,                     \* the arguments of the call
    pc,                       \* the position of the call in the function body
    grids,                    \* grid_x, grid_y, grid_z
    integrals,                \* the three arrays of 1D gaussian integrals
    xs,                       \* the array jax.lax.map iterates over
    ys,                       \* the outputs of jax.lax.map collected so far
    potential_as_voxel_grid,  \* the local of that name
    evaluated,                \* the z rows handed to each recombination step
    \* ---- atomic potential objects ----
    potentials,               \* the potential objects constructed so far
    last,                     \* the last operation on them and its outcome
    \* ---- scattering theory objects ----
    theories,                 \* the scattering theories constructed so far
    theory_last,              \* the last operation on them and its outcome
    \* ---- wave transfer function objects ----
    transfer_functions,       \* the WaveTransferFunction object constructed, if any
    transfer_last,            \* the last operation on them and its outcome
    \* ---- one call of AbstractPotentialIntegrator.__call__ ----
    integration,              \* the arguments, position and locals of the call
    \* ---- point clouds, specimens and the pose transforms ----
    cloud,                    \* the jax_2dtm Cloud object at hand
    the_specimen,             \* the cryojax Specimen object at hand
    view_last,                \* the last view or rotation and what it returned
    \* ---- image models of cryojax and of jax_2dtm ----
    images,                   \* the image model constructed, if any
    image_last                \* the last operation on it and its outcome

voxelVars == <<args, pc, grids, integrals, xs, ys, potential_as_voxel_grid,
               evaluated>>

potentialVars == <<potentials, last>>

theoryVars == <<theories, theory_last>>

transferVars == <<transfer_functions, transfer_last>>

integratorVars == <<integration>>

viewVars == <<cloud, the_specimen, view_last>>

imageVars == <<images, image_last>>

vars == <<args, pc, grids, integrals, xs, ys, potential_as_voxel_grid,
          evaluated, potentials, last, theories, theory_last,
          transfer_functions, transfer_last, integration,
          cloud, the_specimen, view_last, images, image_last>>

\* What a step of one part of the program leaves alone.
OnlyVoxel == UNCHANGED <<potentialVars, theoryVars, transferVars, integratorVars, viewVars, imageVars>>

OnlyPotentials == UNCHANGED <<voxelVars, theoryVars, transferVars, integratorVars, viewVars, imageVars>>

OnlyTheories == UNCHANGED <<voxelVars, potentialVars, transferVars, integratorVars, viewVars, imageVars>>

OnlyTransfer == UNCHANGED <<voxelVars, potentialVars, theoryVars, integratorVars, viewVars, imageVars>>

OnlyIntegrator == UNCHANGED <<voxelVars, potentialVars, theoryVars, transferVars, viewVars, imageVars>>

OnlyViews == UNCHANGED <<voxelVars, potentialVars, theoryVars, transferVars, integratorVars, imageVars>>

OnlyImages == UNCHANGED <<voxelVars, potentialVars, theoryVars, transferVars, integratorVars, viewVars>>

(***************************************************************************)
(* Helpers on integers and sequences.                                      *)
(***************************************************************************)
RECURSIVE SumSeq(_)
SumSeq(s) == IF s = <<>> THEN 0 ELSE s[1] + SumSeq(Tail(s))

RECURSIVE ISqrtFrom(_, _)
ISqrtFrom(n, r) == IF (r + 1) * (r + 1) > n THEN r ELSE ISqrtFrom(n, r + 1)

\* jnp.sqrt on the fixed-point grid: the integer square root.
ISqrt(n) == ISqrtFrom(n, 0)

\* The sequences of length 0..n over the set S.
SeqsUpTo(S, n) == UNION {[1..k -> S] : k \in 0..n}

\* jsp.special.erf at k * pi/16, in hundredths (an odd function, saturating
\* at +-1).
ErfTable == <<22, 42, 60, 73, 83, 90, 95, 97, 99, 99, 100>>

Erf(k) ==
    IF k = 0 THEN 0
    ELSE IF k > 0 THEN (IF k > Len(ErfTable) THEN 100 ELSE ErfTable[k])
    ELSE (IF -k > Len(ErfTable) THEN -100 ELSE -ErfTable[-k])

(***************************************************************************)
(* cryojax.coordinates.make_1d_coordinate_grid: the centred coordinates    *)
(* (i - dim // 2) * voxel_size of the dim grid points.                     *)
(***************************************************************************)
make_1d_coordinate_grid(dim, voxel_size) ==
    [i \in 1..dim |-> ((i - 1) - (dim \div 2)) * voxel_size]

(***************************************************************************)
(* _evaluate_gaussian_integrals_for_all_atoms_and_intervals.               *)
(***************************************************************************)
\* scaling = 2 * pi / sqrt(b): on the fixed-point grid (delta in half
\* angstroms, the argument of erf in units of pi/16) this is 16 / sqrt(b).
Scaling(b) == [n \in DOMAIN b |-> [g \in DOMAIN b[n] |-> 16 \div ISqrt(b[n][g])]]

\* A kernel that integrates over the lower half of each voxel only.
IntegrationKernelOverHalfVoxel(delta, scaling, voxel_size) ==
    [i \in DOMAIN delta |->
        [n \in DOMAIN scaling |->
            [g \in DOMAIN scaling[n] |->
                Erf(scaling[n][g] * (delta[i][n] + voxel_size \div 2))
                    - Erf(scaling[n][g] * delta[i][n])]]]

\* integration_kernel_1d: delta is (dim, n_atoms), the result
\* (dim, n_atoms, n_gaussians_per_atom).
integration_kernel_1d(delta, scaling, voxel_size) ==
    [i \in DOMAIN delta |->
        [n \in DOMAIN scaling |->
            [g \in DOMAIN scaling[n] |->
                Erf(scaling[n][g] * (delta[i][n] + voxel_size))
                    - Erf(scaling[n][g] * delta[i][n])]]]

\* 4 * pi in the fixed-point scale of the prefactor (4 * pi * 64, voxel sizes
\* being counted in half angstroms).
FourPi == 804

\* prefactor = (4 * pi * a) / (2 * voxel_size) ** 3
Prefactor(a, voxel_size) ==
    [n \in DOMAIN a |->
        [g \in DOMAIN a[n] |-> (FourPi * a[n][g]) \div ((2 * voxel_size) ^ 3)]]

\* left_edge_grid[:, None] - atom_positions[:, axis]
EdgeOffsets(grid, atom_positions, axis, voxel_size) ==
    [i \in DOMAIN grid |->
        [n \in DOMAIN atom_positions |->
            (grid[i] - voxel_size \div 2) - atom_positions[n][axis]]]

\* An evaluation that multiplies the prefactor onto the y integrals as well.
IntegralsWithPrefactorOnXAndY(grid_x, grid_y, grid_z, atom_positions, a, b, voxel_size) ==
    LET scaling == Scaling(b)
        delta_x == EdgeOffsets(grid_x, atom_positions, 1, voxel_size)
        delta_y == EdgeOffsets(grid_y, atom_positions, 2, voxel_size)
        delta_z == EdgeOffsets(grid_z, atom_positions, 3, voxel_size)
        gauss_x == integration_kernel_1d(delta_x, scaling, voxel_size)
        gauss_y == integration_kernel_1d(delta_y, scaling, voxel_size)
        gauss_z == integration_kernel_1d(delta_z, scaling, voxel_size)
        prefactor == Prefactor(a, voxel_size)
        scaled(gauss) ==
            [i \in DOMAIN gauss |->
                [n \in DOMAIN prefactor |->
                    [g \in DOMAIN prefactor[n] |->
                        prefactor[n][g] * gauss[i][n][g]]]]
    IN  [x |-> scaled(gauss_x), y |-> scaled(gauss_y), z |-> gauss_z]

_evaluate_gaussian_integrals_for_all_atoms_and_intervals(grid_x, grid_y, grid_z, atom_positions, a, b, voxel_size) ==
    LET scaling == Scaling(b)
        delta_x == EdgeOffsets(grid_x, atom_positions, 1, voxel_size)
        delta_y == EdgeOffsets(grid_y, atom_positions, 2, voxel_size)
        delta_z == EdgeOffsets(grid_z, atom_positions, 3, voxel_size)
        gauss_x == integration_kernel_1d(delta_x, scaling, voxel_size)
        gauss_y == integration_kernel_1d(delta_y, scaling, voxel_size)
        gauss_z == integration_kernel_1d(delta_z, scaling, voxel_size)
        prefactor == Prefactor(a, voxel_size)
    IN  [x |-> [i \in DOMAIN gauss_x |->
                   [n \in DOMAIN prefactor |->
                       [g \in DOMAIN prefactor[n] |->
                           prefactor[n][g] * gauss_x[i][n][g]]]],
         y |-> gauss_y,
         z |-> gauss_z]

(***************************************************************************)
(* _evaluate_gaussian_potential_at_z_plane: gauss_x is transposed to       *)
(* (g, n, x), gauss_y * gauss_z[None] to (g, y, n); jnp.matmul contracts   *)
(* the atom axis n and jnp.sum(axis=0) the gaussian axis g.  The result    *)
(* has shape (dim_y, dim_x).                                               *)
(***************************************************************************)
NGaussians(gaussian_integrals_per_atom_z) ==
    IF gaussian_integrals_per_atom_z = <<>> THEN 0
    ELSE Len(gaussian_integrals_per_atom_z[1])

\* A recombination that broadcasts the first atom's x integrals to every atom.
EvaluatePlaneWithFirstAtomX(gaussian_integrals_per_atom_per_interval_x, gaussian_integrals_per_atom_per_interval_y, gaussian_integrals_per_atom_z) ==
    LET gx == gaussian_integrals_per_atom_per_interval_x
        gy == gaussian_integrals_per_atom_per_interval_y
        gz == gaussian_integrals_per_atom_z
        n_atoms == Len(gz)
        n_gaussians == NGaussians(gz)
        matmul(g, y, x) ==
            SumSeq([n \in 1..n_atoms |-> (gy[y][n][g] * gz[n][g]) * gx[x][1][g]])
    IN  [y \in DOMAIN gy |->
            [x \in DOMAIN gx |->
                SumSeq([g \in 1..n_gaussians |-> matmul(g, y, x)])]]

_evaluate_gaussian_potential_at_z_plane(gaussian_integrals_per_atom_per_interval_x, gaussian_integrals_per_atom_per_interval_y, gaussian_integrals_per_atom_z) ==
    LET gx == gaussian_integrals_per_atom_per_interval_x
        gy == gaussian_integrals_per_atom_per_interval_y
        gz == gaussian_integrals_per_atom_z
        n_atoms == Len(gz)
        n_gaussians == NGaussians(gz)
        matmul(g, y, x) ==
            SumSeq([n \in 1..n_atoms |-> (gy[y][n][g] * gz[n][g]) * gx[x][n][g]])
    IN  [y \in DOMAIN gy |->
            [x \in DOMAIN gx |->
                SumSeq([g \in 1..n_gaussians |-> matmul(g, y, x)])]]

(***************************************************************************)
(* The pieces of _build_real_space_voxel_potential_from_atoms.             *)
(***************************************************************************)
\* compute_potential_at_z_plane, the closure over the x and y integrals.
compute_potential_at_z_plane(ints, gaussian_integrals_per_atom_z) ==
    _evaluate_gaussian_potential_at_z_plane(ints.x, ints.y,
                                            gaussian_integrals_per_atom_z)

\* compute_potential_at_z_planes = jax.vmap(compute_potential_at_z_plane):
\* one vectorised step over the leading axis of its argument.
compute_potential_at_z_planes(ints, rows) ==
    [k \in DOMAIN rows |-> compute_potential_at_z_plane(ints, rows[k])]

\* array[lo:hi, ...] with python's half-open 0-based bounds.
Slice(array, lo, hi) == [k \in 1..(hi - lo) |-> array[lo + k]]

\* A reshape that fills the batches column by column.
ReshapeColumnMajor(array, n, m) ==
    [i \in 1..n |-> [j \in 1..m |-> array[(j - 1) * n + i]]]

\* array.reshape((n, m, ...)) of an array whose leading axis has n * m
\* entries (row-major order).
Reshape(array, n, m) ==
    [i \in 1..n |-> [j \in 1..m |-> array[(i - 1) * m + j]]]

\* batched.reshape((n * m, ...)) of an array of shape (n, m, ...).
Flatten(batched, n, m) ==
    [k \in 1..(n * m) |-> batched[((k - 1) \div m) + 1][((k - 1) % m) + 1]]

\* jnp.concatenate([first, second], axis=0)
Concatenate(first, second) == first \o second

\* The z integrals, each row tagged with its row number 0..Z-1 (the tag is
\* bookkeeping of the model: slicing and reshaping move it with its row).
TaggedRows(gauss_z) == [k \in DOMAIN gauss_z |-> [k |-> k - 1, row |-> gauss_z[k]]]

Untag(rows) == [j \in DOMAIN rows |-> rows[j].row]

Tags(rows) == [j \in DOMAIN rows |-> rows[j].k]

\* The value the function returns for a batch_size it accepts: lines 347-420
\* as one expression.
_build_real_space_voxel_potential_from_atoms(shape, voxel_size, atom_positions, a, b, batch_size) ==
    LET z_dim == shape[1]
        y_dim == shape[2]
        x_dim == shape[3]
        grid_x == make_1d_coordinate_grid(x_dim, voxel_size)
        grid_y == make_1d_coordinate_grid(y_dim, voxel_size)
        grid_z == make_1d_coordinate_grid(z_dim, voxel_size)
        ints == _evaluate_gaussian_integrals_for_all_atoms_and_intervals(
                    grid_x, grid_y, grid_z, atom_positions, a, b, voxel_size)
        n_batches == z_dim \div batch_size
        remainder == z_dim % batch_size
        batched == Reshape(Slice(ints.z, 0, z_dim - remainder), n_batches, batch_size)
        mapped == [i \in DOMAIN batched |->
                      compute_potential_at_z_planes(ints, batched[i])]
        whole == Flatten(mapped, n_batches, batch_size)
    IN  IF batch_size = 1
        THEN [k \in DOMAIN ints.z |-> compute_potential_at_z_plane(ints, ints.z[k])]
        ELSE IF remainder # 0
             THEN Concatenate(whole,
                      compute_potential_at_z_planes(
                          ints, Slice(ints.z, z_dim - remainder, z_dim)))
             ELSE whole

(***************************************************************************)
(* The inputs of a call.                                                   *)
(***************************************************************************)
VoxelSizes == {2, 4}

Shapes == {<<z, y, x>> : z \in 1..MaxZ, y \in 1..MaxYX, x \in 1..MaxYX}

BatchSizes == (-1)..(MaxZ + 1)

\* Atoms with two gaussians each: position (x, y, z), amplitudes, widths.
AtomPool ==
    { [position |-> <<0, 0, 0>>, a |-> <<1, 2>>, b |-> <<16, 64>>],
      [position |-> <<1, -2, 3>>, a |-> <<2, -1>>, b |-> <<64, 256>>] }

AtomLists == SeqsUpTo(AtomPool, MaxAtoms)

Call(shape, voxel_size, atoms, batch_size) ==
    [shape |-> shape,
     voxel_size |-> voxel_size,
     atom_positions |-> [n \in DOMAIN atoms |-> atoms[n].position],
     a |-> [n \in DOMAIN atoms |-> atoms[n].a],
     b |-> [n \in DOMAIN atoms |-> atoms[n].b],
     batch_size |-> batch_size]

z_dim == args.shape[1]
y_dim == args.shape[2]
x_dim == args.shape[3]

(***************************************************************************)
(* _build_real_space_voxel_potential_from_atoms, statement by statement.   *)
(***************************************************************************)
\* No call of the voxel grid builder is in progress.
VoxelIdle ==
    /\ args = Call(<<1, 1, 1>>, 2, <<>>, 1)
    /\ pc = "idle"
    /\ grids = [x |-> <<>>, y |-> <<>>, z |-> <<>>]
    /\ integrals = [x |-> <<>>, y |-> <<>>, z |-> <<>>]
    /\ xs = <<>>
    /\ ys = <<>>
    /\ potential_as_voxel_grid = <<>>
    /\ evaluated = <<>>

VoxelInit ==
    /\ \E shape \in Shapes, voxel_size \in VoxelSizes, atoms \in AtomLists,
          batch_size \in BatchSizes :
            args = Call(shape, voxel_size, atoms, batch_size)
    /\ pc = "start"
    /\ grids = [x |-> <<>>, y |-> <<>>, z |-> <<>>]
    /\ integrals = [x |-> <<>>, y |-> <<>>, z |-> <<>>]
    /\ xs = <<>>
    /\ ys = <<>>
    /\ potential_as_voxel_grid = <<>>
    /\ evaluated = <<>>

\* lines 348-351
MakeCoordinateGrids ==
    /\ pc = "start"
    /\ grids' = [x |-> make_1d_coordinate_grid(x_dim, args.voxel_size),
                 y |-> make_1d_coordinate_grid(y_dim, args.voxel_size),
                 z |-> make_1d_coordinate_grid(z_dim, args.voxel_size)]
    /\ pc' = "grids"
    /\ UNCHANGED <<args, integrals, xs, ys, potential_as_voxel_grid, evaluated>>
    /\ OnlyVoxel

\* lines 353-367
EvaluateIntegrals ==
    /\ pc = "grids"
    /\ integrals' = _evaluate_gaussian_integrals_for_all_atoms_and_intervals(
                        grids.x, grids.y, grids.z, args.atom_positions,
                        args.a, args.b, args.voxel_size)
    /\ pc' = "integrals"
    /\ UNCHANGED <<args, grids, xs, ys, potential_as_voxel_grid, evaluated>>
    /\ OnlyVoxel

\* The range check with >= in place of >.
RaiseBatchSizeAtLeastZ ==
    /\ pc = "integrals"
    /\ args.batch_size >= z_dim
    /\ pc' = "raised"
    /\ UNCHANGED <<args, grids, integrals, xs, ys, potential_as_voxel_grid, evaluated>>
    /\ OnlyVoxel

\* lines 369-374
RaiseBatchSizeTooLarge ==
    /\ pc = "integrals"
    /\ args.batch_size > z_dim
    /\ pc' = "raised"
    /\ UNCHANGED <<args, grids, integrals, xs, ys, potential_as_voxel_grid, evaluated>>
    /\ OnlyVoxel

\* lines 375-379: jax.lax.map over the rows of the z integrals
StartSequentialMap ==
    /\ pc = "integrals"
    /\ ~(args.batch_size > z_dim)
    /\ args.batch_size = 1
    /\ xs' = TaggedRows(integrals.z)
    /\ ys' = <<>>
    /\ pc' = "map"
    /\ UNCHANGED <<args, grids, integrals, potential_as_voxel_grid, evaluated>>
    /\ OnlyVoxel

\* lines 380-395: the rows are cut to a multiple of batch_size and reshaped
StartBatchedMap ==
    /\ pc = "integrals"
    /\ ~(args.batch_size > z_dim)
    /\ args.batch_size # 1
    /\ args.batch_size > 1
    /\ xs' = Reshape(Slice(TaggedRows(integrals.z), 0, z_dim - (z_dim % args.batch_size)),
                     z_dim \div args.batch_size, args.batch_size)
    /\ ys' = <<>>
    /\ pc' = "map"
    /\ UNCHANGED <<args, grids, integrals, potential_as_voxel_grid, evaluated>>
    /\ OnlyVoxel

\* lines 414-418
RaiseBatchSizeTooSmall ==
    /\ pc = "integrals"
    /\ ~(args.batch_size > z_dim)
    /\ args.batch_size # 1
    /\ ~(args.batch_size > 1)
    /\ pc' = "raised"
    /\ UNCHANGED <<args, grids, integrals, xs, ys, potential_as_voxel_grid, evaluated>>
    /\ OnlyVoxel

\* one iteration of the jax.lax.map of lines 377-379
SequentialMapStep ==
    /\ pc = "map"
    /\ args.batch_size = 1
    /\ Len(ys) < Len(xs)
    /\ LET x == xs[Len(ys) + 1]
       IN  /\ ys' = Append(ys, compute_potential_at_z_plane(integrals, x.row))
           /\ evaluated' = Append(evaluated, <<x.k>>)
    /\ UNCHANGED <<args, pc, grids, integrals, xs, potential_as_voxel_grid>>
    /\ OnlyVoxel

\* one iteration of the jax.lax.map of lines 397-398
BatchedMapStep ==
    /\ pc = "map"
    /\ args.batch_size > 1
    /\ Len(ys) < Len(xs)
    /\ LET x == xs[Len(ys) + 1]
       IN  /\ ys' = Append(ys, compute_potential_at_z_planes(integrals, Untag(x)))
           /\ evaluated' = Append(evaluated, Tags(x))
    /\ UNCHANGED <<args, pc, grids, integrals, xs, potential_as_voxel_grid>>
    /\ OnlyVoxel

\* lines 377-379 and 420: the map's output is the grid
FinishSequentialMap ==
    /\ pc = "map"
    /\ args.batch_size = 1
    /\ Len(ys) = Len(xs)
    /\ potential_as_voxel_grid' = ys
    /\ pc' = "done"
    /\ UNCHANGED <<args, grids, integrals, xs, ys, evaluated>>
    /\ OnlyVoxel

\* lines 397-402: the map's output is reshaped to ((Z // b) * b, Y, X)
FinishBatchedMap ==
    /\ pc = "map"
    /\ args.batch_size > 1
    /\ Len(ys) = Len(xs)
    /\ potential_as_voxel_grid' =
           Flatten(ys, z_dim \div args.batch_size, args.batch_size)
    /\ pc' = IF z_dim % args.batch_size # 0 THEN "remainder" ELSE "done"
    /\ UNCHANGED <<args, grids, integrals, xs, ys, evaluated>>
    /\ OnlyVoxel

\* A return that drops the planes of the last, partial batch.
DropRemainder ==
    /\ pc = "remainder"
    /\ pc' = "done"
    /\ UNCHANGED <<args, grids, integrals, xs, ys, potential_as_voxel_grid, evaluated>>
    /\ OnlyVoxel

\* lines 402-413 and 420
ConcatenateRemainder ==
    /\ pc = "remainder"
    /\ LET rest == Slice(TaggedRows(integrals.z),
                         z_dim - (z_dim % args.batch_size), z_dim)
       IN  /\ potential_as_voxel_grid' =
                  Concatenate(potential_as_voxel_grid,
                              compute_potential_at_z_planes(integrals, Untag(rest)))
           /\ evaluated' = Append(evaluated, Tags(rest))
    /\ pc' = "done"
    /\ UNCHANGED <<args, grids, integrals, xs, ys>>
    /\ OnlyVoxel

VoxelStep ==
    \/ MakeCoordinateGrids
    \/ EvaluateIntegrals
    \/ RaiseBatchSizeTooLarge
    \/ StartSequentialMap
    \/ StartBatchedMap
    \/ RaiseBatchSizeTooSmall
    \/ SequentialMapStep
    \/ BatchedMapStep
    \/ FinishSequentialMap
    \/ FinishBatchedMap
    \/ ConcatenateRemainder

(***************************************************************************)
(* Atomic potentials.  Optional[...] values are sequences: None is <<>>    *)
(* and a given value v is <<v>>.                                           *)
(***************************************************************************)
None == <<>>

Some(v) == <<v>>

\* cryojax._errors.error_if_not_positive(x) raises when an entry of x is <= 0
\* and returns x otherwise; error_if_negative(x) raises when an entry is < 0.
RaisesIfNotPositive(entries) == \E e \in entries : e <= 0

RaisesIfNegative(entries) == \E e \in entries : e < 0

Entries1(array) == {array[n] : n \in DOMAIN array}

Entries2(array) == UNION {Entries1(array[n]) : n \in DOMAIN array}

\* AbstractPose.rotate_coordinates: every coordinate vector is multiplied by
\* the rotation matrix of the pose.
MatVec(matrix, v) ==
    [r \in 1..3 |-> matrix[r][1] * v[1] + matrix[r][2] * v[2] + matrix[r][3] * v[3]]

rotate_coordinates(pose, coordinates) ==
    [n \in DOMAIN coordinates |-> MatVec(pose.rotation, coordinates[n])]

\* Rotations by 90 and 180 degrees about the z axis.
Poses ==
    { [rotation |-> << <<0, -1, 0>>, <<1, 0, 0>>, <<0, 0, 1>> >>],
      [rotation |-> << <<-1, 0, 0>>, <<0, -1, 0>>, <<0, 0, 1>> >>] }

\* peng_element_scattering_factor_parameter_table, two of its rows (hydrogen
\* and carbon), and get_tabulated_scattering_factor_parameters, which looks
\* up the five (a, b) pairs of every atom.
PengTable(identity) ==
    IF identity = 1
    THEN [a |-> <<3, 12, 20, 6, 12>>, b |-> <<1, 4, 12, 19, 39>>]
    ELSE [a |-> <<9, 26, 76, 105, 36>>, b |-> <<1, 2, 6, 19, 50>>]

get_tabulated_scattering_factor_parameters(atom_identities) ==
    [a |-> [n \in DOMAIN atom_identities |-> PengTable(atom_identities[n]).a],
     b |-> [n \in DOMAIN atom_identities |-> PengTable(atom_identities[n]).b]]

\* The arguments the constructors are called with.
PositionArgs == { << <<1, 0, 0>>, <<0, 2, 1>> >> }

AmplitudeArgs == { << <<1, 2>>, <<2, -1>> >> }

WidthArgs ==
    { << <<16, 64>>, <<64, 256>> >>,
      << <<16, 0>>, <<64, 256>> >>,
      << <<16, 64>>, <<-64, 256>> >> }

IdentityArgs == { <<1, 6>> }

BFactorArgs == { None, Some(<<0, 48>>), Some(<<48, 16>>), Some(<<48, -1>>) }

PotentialsInit ==
    /\ potentials = <<>>
    /\ last = [op |-> "none"]

\* A constructor that validates with error_if_negative: a zero width passes.
GaussianMixtureInitAcceptingZero(atom_positions, gaussian_amplitudes, gaussian_widths) ==
    /\ Len(potentials) < MaxPotentials
    /\ IF RaisesIfNegative(Entries2(gaussian_widths))
       THEN /\ potentials' = potentials
            /\ last' = [op |-> "GaussianMixtureAtomicPotential.__init__",
                        raised |-> TRUE, gaussian_widths |-> gaussian_widths]
       ELSE /\ potentials' = Append(potentials,
                   [cls |-> "GaussianMixtureAtomicPotential",
                    atom_positions |-> atom_positions,
                    gaussian_amplitudes |-> gaussian_amplitudes,
                    gaussian_widths |-> gaussian_widths])
            /\ last' = [op |-> "GaussianMixtureAtomicPotential.__init__",
                        raised |-> FALSE, gaussian_widths |-> gaussian_widths]
    /\ OnlyPotentials

\* GaussianMixtureAtomicPotential.__init__ (lines 150-152)
GaussianMixtureInit(atom_positions, gaussian_amplitudes, gaussian_widths) ==
    /\ Len(potentials) < MaxPotentials
    /\ IF RaisesIfNotPositive(Entries2(gaussian_widths))
       THEN /\ potentials' = potentials
            /\ last' = [op |-> "GaussianMixtureAtomicPotential.__init__",
                        raised |-> TRUE, gaussian_widths |-> gaussian_widths]
       ELSE /\ potentials' = Append(potentials,
                   [cls |-> "GaussianMixtureAtomicPotential",
                    atom_positions |-> atom_positions,
                    gaussian_amplitudes |-> gaussian_amplitudes,
                    gaussian_widths |-> gaussian_widths])
            /\ last' = [op |-> "GaussianMixtureAtomicPotential.__init__",
                        raised |-> FALSE, gaussian_widths |-> gaussian_widths]
    /\ OnlyPotentials

\* A constructor that validates with error_if_not_positive: a zero B-factor
\* is rejected.
PengInitRejectingZero(atom_positions, atom_identities, b_factors) ==
    /\ Len(potentials) < MaxPotentials
    /\ LET factors == get_tabulated_scattering_factor_parameters(atom_identities)
           raises == b_factors # None /\ RaisesIfNotPositive(Entries1(b_factors[1]))
       IN  IF raises
           THEN /\ potentials' = potentials
                /\ last' = [op |-> "PengAtomicPotential.__init__",
                            raised |-> TRUE, b_factors |-> b_factors]
           ELSE /\ potentials' = Append(potentials,
                       [cls |-> "PengAtomicPotential",
                        atom_positions |-> atom_positions,
                        scattering_factor_a |-> factors.a,
                        scattering_factor_b |-> factors.b,
                        b_factors |-> b_factors])
                /\ last' = [op |-> "PengAtomicPotential.__init__",
                            raised |-> FALSE, b_factors |-> b_factors]
    /\ OnlyPotentials

\* PengAtomicPotential.__init__ (lines 253-264)
PengInit(atom_positions, atom_identities, b_factors) ==
    /\ Len(potentials) < MaxPotentials
    /\ LET factors == get_tabulated_scattering_factor_parameters(atom_identities)
           raises == b_factors # None /\ RaisesIfNegative(Entries1(b_factors[1]))
       IN  IF raises
           THEN /\ potentials' = potentials
                /\ last' = [op |-> "PengAtomicPotential.__init__",
                            raised |-> TRUE, b_factors |-> b_factors]
           ELSE /\ potentials' = Append(potentials,
                       [cls |-> "PengAtomicPotential",
                        atom_positions |-> atom_positions,
                        scattering_factor_a |-> factors.a,
                        scattering_factor_b |-> factors.b,
                        b_factors |-> IF b_factors = None THEN None ELSE b_factors])
                /\ last' = [op |-> "PengAtomicPotential.__init__",
                            raised |-> FALSE, b_factors |-> b_factors]
    /\ OnlyPotentials

\* eqx.tree_at(lambda d: d.atom_positions, potential, replacement): a copy of
\* the potential with that one field replaced.
tree_at_atom_positions(potential, replacement) ==
    [potential EXCEPT !.atom_positions = replacement]

\* A rotation that writes the rotated positions into the receiver.
RotateInPlace(i, pose) ==
    /\ i \in DOMAIN potentials
    /\ Len(potentials) < MaxPotentials
    /\ LET rotated == tree_at_atom_positions(potentials[i],
                          rotate_coordinates(pose, potentials[i].atom_positions))
       IN  potentials' = Append([potentials EXCEPT ![i] = rotated], rotated)
    /\ last' = [op |-> "rotate_to_pose", receiver |-> i, pose |-> pose]
    /\ OnlyPotentials

\* AbstractAtomicPotential.rotate_to_pose (lines 72-78)
RotateToPose(i, pose) ==
    /\ i \in DOMAIN potentials
    /\ Len(potentials) < MaxPotentials
    /\ potentials' = Append(potentials,
           tree_at_atom_positions(potentials[i],
               rotate_coordinates(pose, potentials[i].atom_positions)))
    /\ last' = [op |-> "rotate_to_pose", receiver |-> i, pose |-> pose]
    /\ OnlyPotentials

\* Widths broadened by the first atom's B-factor for every atom.
PengWidthsWithFirstAtomBFactor(potential) ==
    IF potential.b_factors = None
    THEN potential.scattering_factor_b
    ELSE [n \in DOMAIN potential.scattering_factor_b |->
             [i \in DOMAIN potential.scattering_factor_b[n] |->
                 potential.scattering_factor_b[n][i] + potential.b_factors[1][1]]]

\* PengAtomicPotential.as_real_voxel_grid, lines 324-327:
\* scattering_factor_b + b_factors[:, None]
PengGaussianWidths(potential) ==
    IF potential.b_factors = None
    THEN potential.scattering_factor_b
    ELSE [n \in DOMAIN potential.scattering_factor_b |->
             [i \in DOMAIN potential.scattering_factor_b[n] |->
                 potential.scattering_factor_b[n][i] + potential.b_factors[1][n]]]

\* The arguments as_real_voxel_grid hands to
\* _build_real_space_voxel_potential_from_atoms (lines 180-187 and 323-335).
BuildArguments(potential, shape, voxel_size, batch_size) ==
    IF potential.cls = "GaussianMixtureAtomicPotential"
    THEN [shape |-> shape, voxel_size |-> voxel_size,
          atom_positions |-> potential.atom_positions,
          a |-> potential.gaussian_amplitudes,
          b |-> potential.gaussian_widths,
          batch_size |-> batch_size]
    ELSE [shape |-> shape, voxel_size |-> voxel_size,
          atom_positions |-> potential.atom_positions,
          a |-> potential.scattering_factor_a,
          b |-> PengGaussianWidths(potential),
          batch_size |-> batch_size]

\* as_real_voxel_grid of either class
AsRealVoxelGrid(i, shape, voxel_size, batch_size) ==
    /\ i \in DOMAIN potentials
    /\ potentials' = potentials
    /\ last' = [op |-> "as_real_voxel_grid", receiver |-> i,
                built |-> BuildArguments(potentials[i], shape, voxel_size, batch_size)]
    /\ OnlyPotentials

PotentialStep ==
    \/ \E atom_positions \in PositionArgs, gaussian_amplitudes \in AmplitudeArgs,
          gaussian_widths \in WidthArgs :
            GaussianMixtureInit(atom_positions, gaussian_amplitudes, gaussian_widths)
    \/ \E atom_positions \in PositionArgs, atom_identities \in IdentityArgs,
          b_factors \in BFactorArgs :
            PengInit(atom_positions, atom_identities, b_factors)
    \/ \E i \in 1..MaxPotentials, pose \in Poses : RotateToPose(i, pose)
    \/ \E i \in 1..MaxPotentials, batch_size \in 1..2 :
            AsRealVoxelGrid(i, <<2, 1, 2>>, 2, batch_size)

(***************************************************************************)
(* Scattering theories in the weak-phase approximation.                    *)
(***************************************************************************)
\* Potential integrators, by class and by their is_integration_complex.
Integrators ==
    { [cls |-> "FourierSliceExtraction", is_integration_complex |-> FALSE],
      [cls |-> "GaussianMixtureProjection", is_integration_complex |-> FALSE],
      [cls |-> "EwaldSphereExtraction", is_integration_complex |-> TRUE] }

\* Structural ensembles: a pose (in-plane offsets and out-of-plane offset)
\* and a conformation.
EnsemblePoses ==
    { [offset_x_in_angstroms |-> 0, offset_y_in_angstroms |-> 0,
       offset_z_in_angstroms |-> 0],
      [offset_x_in_angstroms |-> 1, offset_y_in_angstroms |-> -1,
       offset_z_in_angstroms |-> 8] }

StructuralEnsembles == {[pose |-> pose, conformation |-> 0] : pose \in EnsemblePoses}

\* Assemblies: the batch of subunits is a sequence of structural ensembles.
Assemblies ==
    {[subunits |-> batch] : batch \in SeqsUpTo(StructuralEnsembles, MaxSubunits) \ {<<>>}}

TransferTheories ==
    { [cls |-> "ContrastTransferTheory",
       ctf |-> [defocus_in_angstroms |-> 8, astigmatism_in_angstroms |-> 8,
                astigmatism_angle |-> 0, voltage_in_kilovolts |-> 300,
                spherical_aberration_in_mm |-> 2]] }

Solvents == {None, Some([cls |-> "GaussianIce"])}

TheoriesInit ==
    /\ theories = <<>>
    /\ theory_last = [op |-> "none"]

\* WeakPhaseScatteringTheory.__init__ (lines 84-87) followed by
\* __check_init__ (lines 89-97)
WeakPhaseInit(structural_ensemble, potential_integrator, transfer_theory, solvent) ==
    /\ Len(theories) < MaxTheories
    /\ LET self == [cls |-> "WeakPhaseScatteringTheory",
                    structural_ensemble |-> structural_ensemble,
                    potential_integrator |-> potential_integrator,
                    transfer_theory |-> transfer_theory,
                    solvent |-> solvent]
       IN  IF self.potential_integrator.is_integration_complex
           THEN /\ theories' = theories
                /\ theory_last' = [op |-> "WeakPhaseScatteringTheory.__init__",
                                   raised |-> TRUE,
                                   potential_integrator |-> potential_integrator]
           ELSE /\ theories' = Append(theories, self)
                /\ theory_last' = [op |-> "WeakPhaseScatteringTheory.__init__",
                                   raised |-> FALSE,
                                   potential_integrator |-> potential_integrator]
    /\ OnlyTheories

\* LinearSuperpositionScatteringTheory.__init__ (lines 172-175); the class
\* defines no __check_init__
LinearSuperpositionInit(assembly, potential_integrator, transfer_theory, solvent) ==
    /\ Len(theories) < MaxTheories
    /\ theories' = Append(theories,
           [cls |-> "LinearSuperpositionScatteringTheory",
            assembly |-> assembly,
            potential_integrator |-> potential_integrator,
            transfer_theory |-> transfer_theory,
            solvent |-> solvent])
    /\ theory_last' = [op |-> "LinearSuperpositionScatteringTheory.__init__",
                       raised |-> FALSE,
                       potential_integrator |-> potential_integrator]
    /\ OnlyTheories

(***************************************************************************)
(* Fourier-space fields. A complex number has integer parts; a field is a  *)
(* sequence of rows of complex numbers, its [0, 0] bin at field[1][1].     *)
(* Frequencies are in quarter cycles per angstrom and phases in quarter    *)
(* turns, so that every exp(i * phase) below is exact.                     *)
(***************************************************************************)
Complex(re, im) == [re |-> re, im |-> im]

CAdd(z, w) == Complex(z.re + w.re, z.im + w.im)

CMul(z, w) == Complex(z.re * w.re - z.im * w.im, z.re * w.im + z.im * w.re)

CScale(k, z) == Complex(k * z.re, k * z.im)

\* exp(1j * phase) for a phase of q quarter turns
ExpQuarterTurns(q) ==
    CASE q % 4 = 0 -> Complex(1, 0)
      [] q % 4 = 1 -> Complex(0, 1)
      [] q % 4 = 2 -> Complex(-1, 0)
      [] OTHER     -> Complex(0, -1)

FieldAdd(f, g) == [i \in DOMAIN f |-> [j \in DOMAIN f[i] |-> CAdd(f[i][j], g[i][j])]]

FieldMul(f, g) == [i \in DOMAIN f |-> [j \in DOMAIN f[i] |-> CMul(f[i][j], g[i][j])]]

FieldScale(k, f) == [i \in DOMAIN f |-> [j \in DOMAIN f[i] |-> CScale(k, f[i][j])]]

\* Pixel and voxel sizes are in millionths of an angstrom, fine enough for
\* the tolerance of jnp.isclose.
Angstrom == 1000000

\* The sample frequencies of a transform of n points spaced pixel_size
\* apart, as numpy.fft.fftfreq and numpy.fft.rfftfreq order them.
fftfreq(n, pixel_size) ==
    [i \in 1..n |->
        LET k == IF i - 1 <= (n - 1) \div 2 THEN i - 1 ELSE i - 1 - n
        IN  (4 * k * Angstrom) \div (n * pixel_size)]

rfftfreq(n, pixel_size) ==
    [j \in 1..(n \div 2 + 1) |-> (4 * (j - 1) * Angstrom) \div (n * pixel_size)]

\* InstrumentConfig.padded_frequency_grid_in_angstroms: the half grid of a
\* real transform, of shape (N1, N2 // 2 + 1).
padded_frequency_grid_in_angstroms(instrument_config) ==
    LET fy == fftfreq(instrument_config.padded_shape[1], instrument_config.pixel_size)
        fx == rfftfreq(instrument_config.padded_shape[2], instrument_config.pixel_size)
    IN  [i \in DOMAIN fy |-> [j \in DOMAIN fx |-> [y |-> fy[i], x |-> fx[j]]]]

\* InstrumentConfig.padded_full_frequency_grid_in_angstroms, of shape (N1, N2)
padded_full_frequency_grid_in_angstroms(instrument_config) ==
    LET fy == fftfreq(instrument_config.padded_shape[1], instrument_config.pixel_size)
        fx == fftfreq(instrument_config.padded_shape[2], instrument_config.pixel_size)
    IN  [i \in DOMAIN fy |-> [j \in DOMAIN fx |-> [y |-> fy[i], x |-> fx[j]]]]

\* The instrument configurations: padded shape, pixel size and wavelength.
InstrumentConfigs ==
    { [padded_shape |-> <<4, 2>>, pixel_size |-> Angstrom,
       wavelength_in_angstroms |-> 1],
      [padded_shape |-> <<2, 4>>, pixel_size |-> Angstrom,
       wavelength_in_angstroms |-> 3] }

\* The random keys a call may be given.
RngKeys == {None, Some(1), Some(2)}

\* AbstractPose.compute_shifts: exp(i 2 pi (k_x x + k_y y)) at every bin
compute_shifts(pose, frequency_grid) ==
    [i \in DOMAIN frequency_grid |-> [j \in DOMAIN frequency_grid[i] |->
        ExpQuarterTurns(frequency_grid[i][j].x * pose.offset_x_in_angstroms
                        + frequency_grid[i][j].y * pose.offset_y_in_angstroms)]]

\* AbstractStructuralEnsemble.get_potential_in_lab_frame: the potential of
\* the ensemble's conformation, as point scatterers of a weight at a pixel.
get_potential_in_lab_frame(structural_ensemble) ==
    IF structural_ensemble.conformation = 0
    THEN <<[weight |-> 3, y |-> 0, x |-> 0], [weight |-> 2, y |-> 1, x |-> 0]>>
    ELSE <<[weight |-> 1, y |-> 0, x |-> 1]>>

RECURSIVE SumOfScatterers(_, _)
SumOfScatterers(potential, frequency) ==
    IF potential = <<>>
    THEN Complex(0, 0)
    ELSE CAdd(CScale(Head(potential).weight,
                     ExpQuarterTurns(-(frequency.y * Head(potential).y
                                       + frequency.x * Head(potential).x))),
              SumOfScatterers(Tail(potential), frequency))

\* AbstractPotentialIntegrator.compute_fourier_integrated_potential: the
\* Fourier transform of the projected potential on the padded half grid.
compute_fourier_integrated_potential(potential_integrator, potential, instrument_config) ==
    LET frequency_grid == padded_frequency_grid_in_angstroms(instrument_config)
    IN  [i \in DOMAIN frequency_grid |-> [j \in DOMAIN frequency_grid[i] |->
            SumOfScatterers(potential, frequency_grid[i][j])]]

\* integrated_potential * wavelength / (4 pi): phase shifts are kept in
\* units of 1 / (4 pi).
convert_units_of_integrated_potential(integrated_potential, wavelength_in_angstroms) ==
    FieldScale(wavelength_in_angstroms, integrated_potential)

\* _compute_phase_shift_spectrum_from_scattering_potential (lines 292-311)
_compute_phase_shift_spectrum_from_scattering_potential(structural_ensemble, potential_integrator, instrument_config) ==
    LET potential == get_potential_in_lab_frame(structural_ensemble)
        fourier_integrated_potential ==
            compute_fourier_integrated_potential(
                potential_integrator, potential, instrument_config)
        translational_phase_shifts ==
            compute_shifts(structural_ensemble.pose,
                           padded_frequency_grid_in_angstroms(instrument_config))
        phase_shifts_in_exit_plane ==
            convert_units_of_integrated_potential(
                fourier_integrated_potential,
                instrument_config.wavelength_in_angstroms)
    IN  FieldMul(phase_shifts_in_exit_plane, translational_phase_shifts)

\* AbstractIce.sample_ice_phase_shift_spectrum: a field drawn from the key
sample_ice_phase_shift_spectrum(solvent, rng_key, instrument_config) ==
    LET frequency_grid == padded_frequency_grid_in_angstroms(instrument_config)
    IN  [i \in DOMAIN frequency_grid |-> [j \in DOMAIN frequency_grid[i] |->
            Complex(rng_key[1] * (i + j), rng_key[1] - j)]]

\* AbstractIce.compute_object_spectrum_with_ice: the object spectrum plus a
\* sampled ice spectrum
compute_object_spectrum_with_ice(solvent, rng_key, object_spectrum, instrument_config) ==
    FieldAdd(object_spectrum,
             sample_ice_phase_shift_spectrum(solvent, rng_key, instrument_config))

(***************************************************************************)
(* The wave transfer function. Defocus and astigmatism are whole multiples *)
(* of 8 angstroms and the spherical aberration a whole multiple of 2 mm,   *)
(* which makes every phase a whole number of quarter turns.                *)
(***************************************************************************)
\* convert_keV_to_angstroms: the wavelength of the accelerating voltage
convert_keV_to_angstroms(voltage_in_kilovolts) ==
    IF voltage_in_kilovolts = 300 THEN 2 ELSE 3

\* jnp.deg2rad, the angle in quarter turns
deg2rad(degrees) == degrees \div 90

\* common_functions.compute_phase_shifts, in quarter turns:
\* 2 pi (-defocus(theta) wavelength k^2 / 2
\*       + spherical_aberration wavelength^3 k^4 / 4) - phase_shift,
\* defocus(theta) = (d1 + d2 + (d1 - d2) cos(2 (theta - angle))) / 2
compute_phase_shifts(frequency_grid, defocus_axis_1, defocus_axis_2, astigmatism_angle, wavelength, spherical_aberration, phase_shift) ==
    [i \in DOMAIN frequency_grid |-> [j \in DOMAIN frequency_grid[i] |->
        LET kx_sqr == frequency_grid[i][j].x * frequency_grid[i][j].x
            ky_sqr == frequency_grid[i][j].y * frequency_grid[i][j].y
            k_sqr == kx_sqr + ky_sqr
            defocus_k_sqr ==
                IF astigmatism_angle % 2 = 0
                THEN defocus_axis_1 * kx_sqr + defocus_axis_2 * ky_sqr
                ELSE defocus_axis_1 * ky_sqr + defocus_axis_2 * kx_sqr
        IN  (-(defocus_k_sqr * wavelength)) \div 8
            + (spherical_aberration \div 256)
                  * wavelength * wavelength * wavelength * k_sqr * k_sqr
            - phase_shift]]

MmInAngstroms == 10000000

\* WaveTransferFunction.__call__ returning jnp.cos(phase_shifts)
WaveTransferFunctionCallCosine(self, frequency_grid_in_angstroms, wavelength_in_angstroms, defocus_offset) ==
    LET wavelength ==
            IF wavelength_in_angstroms = None
            THEN convert_keV_to_angstroms(self.voltage_in_kilovolts)
            ELSE wavelength_in_angstroms[1]
        phase_shifts ==
            compute_phase_shifts(
                frequency_grid_in_angstroms,
                self.defocus_in_angstroms + defocus_offset,
                self.defocus_in_angstroms + self.astigmatism_in_angstroms
                    + defocus_offset,
                deg2rad(self.astigmatism_angle), wavelength,
                self.spherical_aberration_in_mm * MmInAngstroms, 0)
    IN  [i \in DOMAIN phase_shifts |-> [j \in DOMAIN phase_shifts[i] |->
            Complex(ExpQuarterTurns(phase_shifts[i][j]).re, 0)]]

\* WaveTransferFunction.__call__ (lines 58-96); wavelength_in_angstroms is
\* None or Some(wavelength)
WaveTransferFunctionCall(self, frequency_grid_in_angstroms, wavelength_in_angstroms, defocus_offset) ==
    LET astigmatism_angle == deg2rad(self.astigmatism_angle)
        spherical_aberration_in_angstroms ==
            self.spherical_aberration_in_mm * MmInAngstroms
        wavelength ==
            IF wavelength_in_angstroms = None
            THEN convert_keV_to_angstroms(self.voltage_in_kilovolts)
            ELSE wavelength_in_angstroms[1]
        defocus_axis_1_in_angstroms == self.defocus_in_angstroms + defocus_offset
        defocus_axis_2_in_angstroms ==
            self.defocus_in_angstroms + self.astigmatism_in_angstroms
                + defocus_offset
        phase_shifts ==
            compute_phase_shifts(
                frequency_grid_in_angstroms, defocus_axis_1_in_angstroms,
                defocus_axis_2_in_angstroms, astigmatism_angle, wavelength,
                spherical_aberration_in_angstroms, 0)
    IN  [i \in DOMAIN phase_shifts |-> [j \in DOMAIN phase_shifts[i] |->
            ExpQuarterTurns(phase_shifts[i][j])]]

\* WaveTransferTheory.__call__ (lines 116-141)
WaveTransferTheoryCall(self, fourier_wavefunction_at_exit_plane, instrument_config, defocus_offset) ==
    LET frequency_grid == padded_full_frequency_grid_in_angstroms(instrument_config)
        wtf_array ==
            WaveTransferFunctionCall(
                self.wtf, frequency_grid,
                Some(instrument_config.wavelength_in_angstroms), defocus_offset)
    IN  FieldMul(wtf_array, fourier_wavefunction_at_exit_plane)

(***************************************************************************)
(* The calls of the scattering theories. Each returns its result and the   *)
(* calls it made of the solvent model and of the transfer theory, in       *)
(* order; subunit is the position in the batch of the subunit the call was *)
(* made for, 0 outside jax.lax.map.                                        *)
(***************************************************************************)
\* ContrastTransferTheory.__call__: the transfer function of the theory's
\* ctf on the padded frequency grid, times the field
ContrastTransferTheoryCall(self, object_spectrum_at_exit_plane, instrument_config, defocus_offset) ==
    FieldMul(WaveTransferFunctionCall(
                 self.ctf, padded_frequency_grid_in_angstroms(instrument_config),
                 Some(instrument_config.wavelength_in_angstroms), defocus_offset),
             object_spectrum_at_exit_plane)

Invocation(callee, subunit, defocus_offset) ==
    [callee |-> callee, subunit |-> subunit, defocus_offset |-> defocus_offset]

\* WeakPhaseScatteringTheory.compute_object_spectrum_at_exit_plane with the
\* ice of a fixed key whenever a solvent is configured
WeakPhaseExitPlaneIgnoringKey(self, instrument_config, rng_key) ==
    LET phase_shift_spectrum_at_exit_plane ==
            _compute_phase_shift_spectrum_from_scattering_potential(
                self.structural_ensemble, self.potential_integrator,
                instrument_config)
    IN  IF self.solvent # None
        THEN [result |-> compute_object_spectrum_with_ice(
                             self.solvent[1], Some(1),
                             phase_shift_spectrum_at_exit_plane, instrument_config),
              calls |-> <<Invocation("solvent.compute_object_spectrum_with_ice", 0, 0)>>]
        ELSE [result |-> phase_shift_spectrum_at_exit_plane, calls |-> <<>>]

\* WeakPhaseScatteringTheory.compute_object_spectrum_at_exit_plane
\* (lines 100-123)
WeakPhaseExitPlane(self, instrument_config, rng_key) ==
    LET phase_shift_spectrum_at_exit_plane ==
            _compute_phase_shift_spectrum_from_scattering_potential(
                self.structural_ensemble, self.potential_integrator,
                instrument_config)
    IN  IF rng_key # None /\ self.solvent # None
        THEN [result |-> compute_object_spectrum_with_ice(
                             self.solvent[1], rng_key,
                             phase_shift_spectrum_at_exit_plane, instrument_config),
              calls |-> <<Invocation("solvent.compute_object_spectrum_with_ice", 0, 0)>>]
        ELSE [result |-> phase_shift_spectrum_at_exit_plane, calls |-> <<>>]

\* WeakPhaseScatteringTheory.compute_contrast_spectrum_at_detector_plane
\* without the defocus offset of the pose
WeakPhaseDetectorPlaneWithoutOffset(self, instrument_config, rng_key) ==
    LET exit_plane == WeakPhaseExitPlane(self, instrument_config, rng_key)
    IN  [result |-> ContrastTransferTheoryCall(
                        self.transfer_theory, exit_plane.result,
                        instrument_config, 0),
         calls |-> Append(exit_plane.calls, Invocation("transfer_theory", 0, 0))]

\* WeakPhaseScatteringTheory.compute_contrast_spectrum_at_detector_plane
\* (lines 126-142)
WeakPhaseDetectorPlane(self, instrument_config, rng_key) ==
    LET exit_plane == WeakPhaseExitPlane(self, instrument_config, rng_key)
        defocus_offset == self.structural_ensemble.pose.offset_z_in_angstroms
    IN  [result |-> ContrastTransferTheoryCall(
                        self.transfer_theory, exit_plane.result,
                        instrument_config, defocus_offset),
         calls |-> Append(exit_plane.calls,
                          Invocation("transfer_theory", 0, defocus_offset))]

\* The last field of the batch in place of the sum over the batch axis
LastOfBatch(fields) == fields[Len(fields)]

\* jnp.sum(..., axis=0) of the fields jax.lax.map returns (lines 198-204)
RECURSIVE SumOverBatch(_)
SumOverBatch(fields) ==
    IF Len(fields) = 1
    THEN fields[1]
    ELSE FieldAdd(SumOverBatch(SubSeq(fields, 1, Len(fields) - 1)),
                  fields[Len(fields)])

\* LinearSuperpositionScatteringTheory.compute_object_spectrum_at_exit_plane
\* with the ice added inside compute_image, once per subunit
LinearSuperpositionExitPlaneIcePerSubunit(self, instrument_config, rng_key) ==
    LET ensemble_batch == self.assembly.subunits
        with_ice == rng_key # None /\ self.solvent # None
        compute_image(ensemble) ==
            LET phase_shift_spectrum_at_exit_plane ==
                    _compute_phase_shift_spectrum_from_scattering_potential(
                        ensemble, self.potential_integrator, instrument_config)
            IN  IF with_ice
                THEN compute_object_spectrum_with_ice(
                         self.solvent[1], rng_key,
                         phase_shift_spectrum_at_exit_plane, instrument_config)
                ELSE phase_shift_spectrum_at_exit_plane
    IN  [result |-> SumOverBatch([k \in DOMAIN ensemble_batch |->
                                      compute_image(ensemble_batch[k])]),
         calls |-> IF with_ice
                   THEN [k \in DOMAIN ensemble_batch |->
                            Invocation("solvent.compute_object_spectrum_with_ice", k, 0)]
                   ELSE <<>>]

\* LinearSuperpositionScatteringTheory.compute_object_spectrum_at_exit_plane
\* (lines 178-228)
LinearSuperpositionExitPlane(self, instrument_config, rng_key) ==
    LET compute_image(ensemble) ==
            _compute_phase_shift_spectrum_from_scattering_potential(
                ensemble, self.potential_integrator, instrument_config)
        ensemble_batch == self.assembly.subunits
        phase_shift_spectrum_at_exit_plane ==
            SumOverBatch([k \in DOMAIN ensemble_batch |->
                              compute_image(ensemble_batch[k])])
    IN  IF rng_key # None /\ self.solvent # None
        THEN [result |-> compute_object_spectrum_with_ice(
                             self.solvent[1], rng_key,
                             phase_shift_spectrum_at_exit_plane, instrument_config),
              calls |-> <<Invocation("solvent.compute_object_spectrum_with_ice", 0, 0)>>]
        ELSE [result |-> phase_shift_spectrum_at_exit_plane, calls |-> <<>>]

\* LinearSuperpositionScatteringTheory.compute_contrast_spectrum_at_detector_plane
\* with the pose of the first subunit taken for every subunit of the batch
LinearSuperpositionDetectorPlaneOfFirstPose(self, instrument_config, rng_key) ==
    LET compute_image(ensemble) ==
            ContrastTransferTheoryCall(
                self.transfer_theory,
                _compute_phase_shift_spectrum_from_scattering_potential(
                    [ensemble EXCEPT !.pose = self.assembly.subunits[1].pose],
                    self.potential_integrator, instrument_config),
                instrument_config, 0)
        ensemble_batch == self.assembly.subunits
    IN  [result |-> SumOverBatch([k \in DOMAIN ensemble_batch |->
                                      compute_image(ensemble_batch[k])]),
         calls |-> [k \in DOMAIN ensemble_batch |->
                       Invocation("transfer_theory", k, 0)]]

\* LinearSuperpositionScatteringTheory.compute_contrast_spectrum_at_detector_plane
\* (lines 231-289)
LinearSuperpositionDetectorPlane(self, instrument_config, rng_key) ==
    LET compute_image(ensemble) ==
            ContrastTransferTheoryCall(
                self.transfer_theory,
                _compute_phase_shift_spectrum_from_scattering_potential(
                    ensemble, self.potential_integrator, instrument_config),
                instrument_config, 0)
        ensemble_batch == self.assembly.subunits
        mapped_calls == [k \in DOMAIN ensemble_batch |->
                            Invocation("transfer_theory", k, 0)]
        contrast_spectrum_at_detector_plane ==
            SumOverBatch([k \in DOMAIN ensemble_batch |->
                              compute_image(ensemble_batch[k])])
    IN  IF rng_key # None /\ self.solvent # None
        THEN LET fourier_ice_contrast_at_detector_plane ==
                     ContrastTransferTheoryCall(
                         self.transfer_theory,
                         sample_ice_phase_shift_spectrum(
                             self.solvent[1], rng_key, instrument_config),
                         instrument_config, 0)
             IN  [result |-> FieldAdd(contrast_spectrum_at_detector_plane,
                                      fourier_ice_contrast_at_detector_plane),
                  calls |-> mapped_calls \o
                      <<Invocation("solvent.sample_ice_phase_shift_spectrum", 0, 0),
                        Invocation("transfer_theory", 0, 0)>>]
        ELSE [result |-> contrast_spectrum_at_detector_plane,
              calls |-> mapped_calls]

\* The method of the receiver's class.
compute_object_spectrum_at_exit_plane(self, instrument_config, rng_key) ==
    IF self.cls = "WeakPhaseScatteringTheory"
    THEN WeakPhaseExitPlane(self, instrument_config, rng_key)
    ELSE LinearSuperpositionExitPlane(self, instrument_config, rng_key)

compute_contrast_spectrum_at_detector_plane(self, instrument_config, rng_key) ==
    IF self.cls = "WeakPhaseScatteringTheory"
    THEN WeakPhaseDetectorPlane(self, instrument_config, rng_key)
    ELSE LinearSuperpositionDetectorPlane(self, instrument_config, rng_key)

\* compute_intensity_spectrum_at_detector_plane with N1 * N2 added to
\* every bin
IntensityWithConstantInEveryBin(self, instrument_config, rng_key) ==
    LET N1 == instrument_config.padded_shape[1]
        N2 == instrument_config.padded_shape[2]
        contrast == compute_contrast_spectrum_at_detector_plane(
                        self, instrument_config, rng_key)
    IN  [result |-> [i \in DOMAIN contrast.result |->
                       [j \in DOMAIN contrast.result[i] |->
                           CAdd(CScale(2, contrast.result[i][j]),
                                Complex(N1 * N2, 0))]],
         calls |-> contrast.calls]

\* AbstractWeakPhaseScatteringTheory.compute_intensity_spectrum_at_detector_plane
\* (lines 40-59)
compute_intensity_spectrum_at_detector_plane(self, instrument_config, rng_key) ==
    LET N1 == instrument_config.padded_shape[1]
        N2 == instrument_config.padded_shape[2]
        contrast_spectrum_at_detector_plane ==
            compute_contrast_spectrum_at_detector_plane(
                self, instrument_config, rng_key)
        doubled == FieldScale(2, contrast_spectrum_at_detector_plane.result)
    IN  [result |-> [doubled EXCEPT ![1][1] = CAdd(@, Complex(N1 * N2, 0))],
         calls |-> contrast_spectrum_at_detector_plane.calls]

\* A call of one of the three operations on a constructed theory.
TheoryCall(op, i, instrument_config, rng_key, outcome) ==
    /\ theory_last' = [op |-> op, raised |-> FALSE, receiver |-> i,
                       instrument_config |-> instrument_config,
                       rng_key |-> rng_key,
                       result |-> outcome.result, calls |-> outcome.calls]
    /\ UNCHANGED theories
    /\ OnlyTheories

ComputeObjectSpectrumAtExitPlane(i, instrument_config, rng_key) ==
    /\ i \in DOMAIN theories
    /\ TheoryCall("compute_object_spectrum_at_exit_plane", i,
                  instrument_config, rng_key,
                  compute_object_spectrum_at_exit_plane(
                      theories[i], instrument_config, rng_key))

ComputeContrastSpectrumAtDetectorPlane(i, instrument_config, rng_key) ==
    /\ i \in DOMAIN theories
    /\ TheoryCall("compute_contrast_spectrum_at_detector_plane", i,
                  instrument_config, rng_key,
                  compute_contrast_spectrum_at_detector_plane(
                      theories[i], instrument_config, rng_key))

ComputeIntensitySpectrumAtDetectorPlane(i, instrument_config, rng_key) ==
    /\ i \in DOMAIN theories
    /\ TheoryCall("compute_intensity_spectrum_at_detector_plane", i,
                  instrument_config, rng_key,
                  compute_intensity_spectrum_at_detector_plane(
                      theories[i], instrument_config, rng_key))

\* The theories the two constructors return.
ConstructedTheories ==
    { [cls |-> "WeakPhaseScatteringTheory", structural_ensemble |-> e,
       potential_integrator |-> p, transfer_theory |-> t, solvent |-> s] :
          e \in StructuralEnsembles,
          p \in {q \in Integrators : ~q.is_integration_complex},
          t \in TransferTheories, s \in Solvents }
    \cup
    { [cls |-> "LinearSuperpositionScatteringTheory", assembly |-> a,
       potential_integrator |-> p, transfer_theory |-> t, solvent |-> s] :
          a \in Assemblies, p \in Integrators,
          t \in TransferTheories, s \in Solvents }

\* One constructed theory, not called yet.
TheoryConstructed ==
    /\ theories \in {<<self>> : self \in ConstructedTheories}
    /\ theory_last = [op |-> "none"]

ScatteringStep ==
    \/ \E i \in {1}, instrument_config \in InstrumentConfigs,
          rng_key \in RngKeys :
            ComputeObjectSpectrumAtExitPlane(i, instrument_config, rng_key)
    \/ \E i \in {1}, instrument_config \in InstrumentConfigs,
          rng_key \in RngKeys :
            ComputeContrastSpectrumAtDetectorPlane(i, instrument_config, rng_key)
    \/ \E i \in {1}, instrument_config \in InstrumentConfigs,
          rng_key \in RngKeys :
            ComputeIntensitySpectrumAtDetectorPlane(i, instrument_config, rng_key)

TheoryStep ==
    \/ \E structural_ensemble \in StructuralEnsembles,
          potential_integrator \in Integrators,
          transfer_theory \in TransferTheories, solvent \in Solvents :
            WeakPhaseInit(structural_ensemble, potential_integrator,
                          transfer_theory, solvent)
    \/ \E assembly \in Assemblies, potential_integrator \in Integrators,
          transfer_theory \in TransferTheories, solvent \in Solvents :
            LinearSuperpositionInit(assembly, potential_integrator,
                                    transfer_theory, solvent)

(***************************************************************************)
(* AbstractPotentialIntegrator.__call__: integration, the reconciliation   *)
(* of the voxel size with the pixel size, the translation.                 *)
(***************************************************************************)
Conj(z) == Complex(z.re, -z.im)

RECURSIVE ComplexSum(_)
ComplexSum(terms) ==
    IF terms = <<>> THEN Complex(0, 0)
    ELSE CAdd(Head(terms), ComplexSum(Tail(terms)))

\* rfftn of a real image of shape (N1, N2): the half spectrum of shape
\* (N1, N2 // 2 + 1)
rfftn(image) ==
    LET N1 == Len(image)
        N2 == Len(image[1])
    IN  [i \in 1..N1 |-> [j \in 1..(N2 \div 2 + 1) |->
            ComplexSum([n \in 1..(N1 * N2) |->
                LET y == (n - 1) \div N2
                    x == (n - 1) % N2
                IN  CScale(image[y + 1][x + 1],
                           ExpQuarterTurns(-((4 * (i - 1) * y) \div N1
                                             + (4 * (j - 1) * x) \div N2)))])]]

\* irfftn(fourier_image, s=shape): the real image of the half spectrum,
\* completed by its Hermitian symmetry
irfftn(fourier_image, shape) ==
    LET N1 == shape[1]
        N2 == shape[2]
        full(ky, kx) ==
            IF kx <= N2 \div 2
            THEN fourier_image[ky + 1][kx + 1]
            ELSE Conj(fourier_image[((N1 - ky) % N1) + 1][N2 - kx + 1])
    IN  [y \in 1..N1 |-> [x \in 1..N2 |->
            ComplexSum([n \in 1..(N1 * N2) |->
                LET ky == (n - 1) \div N2
                    kx == (n - 1) % N2
                IN  CMul(full(ky, kx),
                         ExpQuarterTurns((4 * ky * (y - 1)) \div N1
                                         + (4 * kx * (x - 1)) \div N2))]).re
                \div (N1 * N2)]]

\* ImageConfig.rescale_to_pixel_size: the image resampled from the voxel
\* size to the pixel size, each pixel taking the voxel it falls in
rescale_to_pixel_size(config, image, voxel_size) ==
    [y \in DOMAIN image |-> [x \in DOMAIN image[y] |->
        LET v == ((y - 1) * config.pixel_size) \div voxel_size
            u == ((x - 1) * config.pixel_size) \div voxel_size
        IN  image[v + 1][u + 1]]]

\* jnp.isclose(a, b): |a - b| <= atol + rtol |b|, atol = 1e-8 and
\* rtol = 1e-5
isclose(a, b) ==
    LET distance == IF a >= b THEN a - b ELSE b - a
        magnitude == IF b >= 0 THEN b ELSE -b
    IN  distance <= (Angstrom \div 1000 + magnitude) \div 100000

\* jax.lax.cond(pred, true_fun, false_fun, operand), given what each of
\* the two functions returns on the operand
cond(pred, true_fun_of_operand, false_fun_of_operand) ==
    IF pred THEN true_fun_of_operand ELSE false_fun_of_operand

\* The image configurations of the integrators.
ImageConfigs ==
    { [padded_shape |-> <<4, 2>>, pixel_size |-> Angstrom],
      [padded_shape |-> <<2, 4>>, pixel_size |-> Angstrom] }

\* The integrators: every strategy with every image configuration.
PotentialIntegrators ==
    {[cls |-> strategy.cls, config |-> config] :
        strategy \in Integrators, config \in ImageConfigs}

VoxelPotentialClasses == {"FourierVoxelGridPotential", "RealVoxelGridPotential"}

\* The potentials in the lab frame: voxel potentials, of a voxel size that
\* is the pixel size, close to it, just not close to it or its double, and
\* atom potentials, which have no voxel size.
LabFramePotentials ==
    LET scatterers == <<[weight |-> 3, y |-> 0, x |-> 0],
                        [weight |-> 2, y |-> 1, x |-> 0],
                        [weight |-> 1, y |-> 0, x |-> 1]>>
    IN  {[cls |-> cls, voxel_size |-> voxel_size, scatterers |-> scatterers] :
            cls \in VoxelPotentialClasses,
            voxel_size \in {Angstrom, Angstrom + 5, Angstrom + 20, 2 * Angstrom}}
        \cup
        {[cls |-> cls, scatterers |-> scatterers] :
            cls \in {"GaussianMixtureAtomicPotential", "PengAtomicPotential"}}

Specimens ==
    {[potential_in_lab_frame |-> potential, pose |-> pose] :
        potential \in LabFramePotentials, pose \in EnsemblePoses}

\* isinstance(potential, AbstractVoxelPotential)
IsVoxelPotential(potential) == potential.cls \in VoxelPotentialClasses

\* integrate_potential of a strategy: the Fourier transform of the
\* projected potential on the padded half grid of the configuration
integrate_potential(self, potential) ==
    compute_fourier_integrated_potential(self, potential.scatterers, self.config)

\* A call of __call__(specimen) about to start.
IntegrationStart ==
    integration \in
        {[pc |-> "start", self |-> self, specimen |-> specimen,
          potential_at_exit_plane |-> None, steps |-> <<>>] :
            self \in PotentialIntegrators, specimen \in Specimens}

\* lines 40-42
IntegratePotential ==
    /\ integration.pc = "start"
    /\ LET potential == integration.specimen.potential_in_lab_frame
       IN  integration' =
               [integration EXCEPT
                   !.pc = "integrated",
                   !.potential_at_exit_plane =
                       integrate_potential(integration.self, potential),
                   !.steps = Append(@, "integrate_potential")]
    /\ OnlyIntegrator

\* lines 44-57 with the two branches of jax.lax.cond in the other order
ReconcileVoxelSizeSwapped ==
    /\ integration.pc = "integrated"
    /\ IsVoxelPotential(integration.specimen.potential_in_lab_frame)
    /\ LET self == integration.self
           potential == integration.specimen.potential_in_lab_frame
           rescale_fn(fourier_potential) ==
               rfftn(rescale_to_pixel_size(
                         self.config,
                         irfftn(fourier_potential, self.config.padded_shape),
                         potential.voxel_size))
           null_fn(fourier_potential) == fourier_potential
           pred == isclose(potential.voxel_size, self.config.pixel_size)
       IN  integration' =
               [integration EXCEPT
                   !.pc = "reconciled",
                   !.potential_at_exit_plane = cond(pred, rescale_fn(@), null_fn(@)),
                   !.steps = Append(@, IF pred THEN "rescale_fn" ELSE "null_fn")]
    /\ OnlyIntegrator

\* lines 44-57, the potential an AbstractVoxelPotential
ReconcileVoxelSize ==
    /\ integration.pc = "integrated"
    /\ IsVoxelPotential(integration.specimen.potential_in_lab_frame)
    /\ LET self == integration.self
           potential == integration.specimen.potential_in_lab_frame
           rescale_fn(fourier_potential) ==
               rfftn(rescale_to_pixel_size(
                         self.config,
                         irfftn(fourier_potential, self.config.padded_shape),
                         potential.voxel_size))
           null_fn(fourier_potential) == fourier_potential
           pred == isclose(potential.voxel_size, self.config.pixel_size)
       IN  integration' =
               [integration EXCEPT
                   !.pc = "reconciled",
                   !.potential_at_exit_plane = cond(pred, null_fn(@), rescale_fn(@)),
                   !.steps = Append(@, IF pred THEN "null_fn" ELSE "rescale_fn")]
    /\ OnlyIntegrator

\* line 44 with the translation of lines 59-61 inside the if: another
\* potential is returned as integrated
SkipReconciliationAndTranslation ==
    /\ integration.pc = "integrated"
    /\ ~IsVoxelPotential(integration.specimen.potential_in_lab_frame)
    /\ integration' = [integration EXCEPT !.pc = "done"]
    /\ OnlyIntegrator

\* line 44, the potential not an AbstractVoxelPotential
SkipReconciliation ==
    /\ integration.pc = "integrated"
    /\ ~IsVoxelPotential(integration.specimen.potential_in_lab_frame)
    /\ integration' = [integration EXCEPT !.pc = "reconciled"]
    /\ OnlyIntegrator

\* lines 59-63
ApplyTranslation ==
    /\ integration.pc = "reconciled"
    /\ integration' =
           [integration EXCEPT
               !.pc = "done",
               !.potential_at_exit_plane =
                   FieldMul(@, compute_shifts(
                                   integration.specimen.pose,
                                   padded_frequency_grid_in_angstroms(
                                       integration.self.config))),
               !.steps = Append(@, "compute_shifts")]
    /\ OnlyIntegrator

IntegratorStep ==
    \/ IntegratePotential
    \/ ReconcileVoxelSize
    \/ SkipReconciliation
    \/ ApplyTranslation

(***************************************************************************)
(* The life of a wave transfer function: its construction, then calls of   *)
(* it and of the WaveTransferTheory that holds it.                         *)
(***************************************************************************)
DefocusArgs == {-8, 0, 8}

AstigmatismArgs == {0, 8}

AstigmatismAngleArgs == {0, 90}

VoltageArgs == {300}

SphericalAberrationArgs == {-2, 0, 2}

WavelengthArgs == {None, Some(1), Some(3)}

DefocusOffsets == {0, 8, -16}

\* Wavefunctions at the exit plane on the full padded grid.
ExitWavefunctions(instrument_config) ==
    LET rows == 1..instrument_config.padded_shape[1]
        columns == 1..instrument_config.padded_shape[2]
    IN  { [i \in rows |-> [j \in columns |-> Complex(i - j, j)]],
          [i \in rows |-> [j \in columns |-> Complex(2 * i, -3)]] }

\* A constructor that validates the defocus with error_if_negative: a zero
\* defocus is accepted.
WaveTransferFunctionInitAcceptingZero(defocus_in_angstroms, astigmatism_in_angstroms, astigmatism_angle, voltage_in_kilovolts, spherical_aberration_in_mm) ==
    /\ transfer_functions = <<>>
    /\ LET arguments == [defocus_in_angstroms |-> defocus_in_angstroms,
                         astigmatism_in_angstroms |-> astigmatism_in_angstroms,
                         astigmatism_angle |-> astigmatism_angle,
                         voltage_in_kilovolts |-> voltage_in_kilovolts,
                         spherical_aberration_in_mm |-> spherical_aberration_in_mm]
       IN  IF \/ RaisesIfNegative({defocus_in_angstroms})
              \/ RaisesIfNegative({spherical_aberration_in_mm})
           THEN /\ transfer_functions' = transfer_functions
                /\ transfer_last' = [op |-> "WaveTransferFunction.__init__",
                                     raised |-> TRUE, arguments |-> arguments]
           ELSE /\ transfer_functions' = <<arguments>>
                /\ transfer_last' = [op |-> "WaveTransferFunction.__init__",
                                     raised |-> FALSE, arguments |-> arguments]
    /\ OnlyTransfer

\* WaveTransferFunction.__init__ (lines 32-56)
WaveTransferFunctionInit(defocus_in_angstroms, astigmatism_in_angstroms, astigmatism_angle, voltage_in_kilovolts, spherical_aberration_in_mm) ==
    /\ transfer_functions = <<>>
    /\ LET arguments == [defocus_in_angstroms |-> defocus_in_angstroms,
                         astigmatism_in_angstroms |-> astigmatism_in_angstroms,
                         astigmatism_angle |-> astigmatism_angle,
                         voltage_in_kilovolts |-> voltage_in_kilovolts,
                         spherical_aberration_in_mm |-> spherical_aberration_in_mm]
       IN  IF \/ RaisesIfNotPositive({defocus_in_angstroms})
              \/ RaisesIfNegative({spherical_aberration_in_mm})
           THEN /\ transfer_functions' = transfer_functions
                /\ transfer_last' = [op |-> "WaveTransferFunction.__init__",
                                     raised |-> TRUE, arguments |-> arguments]
           ELSE /\ transfer_functions' = <<arguments>>
                /\ transfer_last' = [op |-> "WaveTransferFunction.__init__",
                                     raised |-> FALSE, arguments |-> arguments]
    /\ OnlyTransfer

\* A call of the constructed WaveTransferFunction on the full padded grid
\* of an instrument configuration.
CallWaveTransferFunction(instrument_config, wavelength_in_angstroms, defocus_offset) ==
    /\ transfer_functions # <<>>
    /\ transfer_last' =
           [op |-> "WaveTransferFunction.__call__", raised |-> FALSE,
            instrument_config |-> instrument_config,
            wavelength_in_angstroms |-> wavelength_in_angstroms,
            defocus_offset |-> defocus_offset,
            result |-> WaveTransferFunctionCall(
                           transfer_functions[1],
                           padded_full_frequency_grid_in_angstroms(instrument_config),
                           wavelength_in_angstroms, defocus_offset)]
    /\ UNCHANGED transfer_functions
    /\ OnlyTransfer

\* A call of WaveTransferTheory(wtf), wtf the constructed function.
CallWaveTransferTheory(fourier_wavefunction_at_exit_plane, instrument_config, defocus_offset) ==
    /\ transfer_functions # <<>>
    /\ transfer_last' =
           [op |-> "WaveTransferTheory.__call__", raised |-> FALSE,
            instrument_config |-> instrument_config,
            fourier_wavefunction_at_exit_plane |-> fourier_wavefunction_at_exit_plane,
            defocus_offset |-> defocus_offset,
            result |-> WaveTransferTheoryCall(
                           [wtf |-> transfer_functions[1]],
                           fourier_wavefunction_at_exit_plane,
                           instrument_config, defocus_offset)]
    /\ UNCHANGED transfer_functions
    /\ OnlyTransfer

TransferStep ==
    \/ \E defocus_in_angstroms \in DefocusArgs,
          astigmatism_in_angstroms \in AstigmatismArgs,
          astigmatism_angle \in AstigmatismAngleArgs,
          voltage_in_kilovolts \in VoltageArgs,
          spherical_aberration_in_mm \in SphericalAberrationArgs :
            WaveTransferFunctionInit(
                defocus_in_angstroms, astigmatism_in_angstroms,
                astigmatism_angle, voltage_in_kilovolts,
                spherical_aberration_in_mm)
    \/ \E instrument_config \in InstrumentConfigs,
          wavelength_in_angstroms \in WavelengthArgs,
          defocus_offset \in DefocusOffsets :
            CallWaveTransferFunction(
                instrument_config, wavelength_in_angstroms, defocus_offset)
    \/ \E instrument_config \in InstrumentConfigs,
          defocus_offset \in DefocusOffsets :
            \E fourier_wavefunction_at_exit_plane \in ExitWavefunctions(instrument_config) :
                CallWaveTransferTheory(
                    fourier_wavefunction_at_exit_plane, instrument_config,
                    defocus_offset)

TransferInit ==
    /\ transfer_functions = <<>>
    /\ transfer_last = [op |-> "none"]

IntegrationIdle == integration = [pc |-> "idle"]

\* No cloud or specimen is at hand.
ViewIdle ==
    /\ cloud = None
    /\ the_specimen = None
    /\ view_last = [op |-> "none"]

\* No image model is constructed.
ImagesInit ==
    /\ images = <<>>
    /\ image_last = [op |-> "none"]

(***************************************************************************)
(* jax_2dtm.simulator.pose.  Quaternions are (w, x, y, z) and hold twice   *)
(* their components, so that the 24 unit quaternions with integer or half  *)
(* integer components, whose rotations map integer points to integer       *)
(* points, are exact.  Coordinates and offsets are integers; in Fourier     *)
(* mode (real = False) the product of a coordinate and an offset is a       *)
(* phase counted in quarter turns.                                          *)
(***************************************************************************)
\* The product of two quaternions.
Hamilton(p, q) ==
    << p[1] * q[1] - p[2] * q[2] - p[3] * q[3] - p[4] * q[4],
       p[1] * q[2] + p[2] * q[1] + p[3] * q[4] - p[4] * q[3],
       p[1] * q[3] - p[2] * q[4] + p[3] * q[1] + p[4] * q[2],
       p[1] * q[4] + p[2] * q[3] - p[3] * q[2] + p[4] * q[1] >>

\* jaxlie.SO3(wxyz)
SO3(wxyz) == [wxyz |-> wxyz]

\* jaxlie.SO3.from_quaternion_xyzw(xyzw) = SO3(jnp.roll(xyzw, shift=1)): the
\* last entry of its argument is the scalar part.
SO3_from_quaternion_xyzw(xyzw) == SO3(<<xyzw[4], xyzw[1], xyzw[2], xyzw[3]>>)

\* jaxlie.SO3.inverse: the conjugate quaternion.
SO3_inverse(rotation) ==
    SO3(<<rotation.wxyz[1], -rotation.wxyz[2], -rotation.wxyz[3], -rotation.wxyz[4]>>)

\* jaxlie.SO3.apply(target): the vector part of q * (0, target) * q^-1 (the
\* two doubled quaternions bring in the factor 4).
SO3_apply(rotation, target) ==
    LET padded_target == <<0, target[1], target[2], target[3]>>
        rotated == Hamilton(Hamilton(rotation.wxyz, padded_target),
                            SO3_inverse(rotation).wxyz)
    IN  <<rotated[2] \div 4, rotated[3] \div 4, rotated[4] \div 4>>

\* jaxlie.SE3(wxyz_xyz)
SE3(wxyz_xyz) == [wxyz_xyz |-> wxyz_xyz]

\* jaxlie.SE3.apply(target) = rotation @ target + translation
SE3_apply(transformation, target) ==
    LET rotation == SO3(SubSeq(transformation.wxyz_xyz, 1, 4))
        translation == SubSeq(transformation.wxyz_xyz, 5, 7)
        rotated == SO3_apply(rotation, target)
    IN  [axis \in 1..3 |-> rotated[axis] + translation[axis]]

\* rotate_and_translate_wxyz (lines 167-203): coords has shape (N, 3)
rotate_and_translate_wxyz(coords, tx, ty, qw, qx, qy, qz) ==
    LET wxyz_xyz == <<qw, qx, qy, qz, tx, ty, 0>>
        transformation == SE3(wxyz_xyz)
    IN  [n \in DOMAIN coords |-> SE3_apply(transformation, coords[n])]

\* coords.reshape((N, 3)) of a grid of shape (N1, N2, N3, 3)
ReshapeToPoints(coords) ==
    LET N2 == Len(coords[1])
        N3 == Len(coords[1][1])
    IN  [n \in 1..(Len(coords) * N2 * N3) |->
            coords[((n - 1) \div (N2 * N3)) + 1]
                  [(((n - 1) \div N3) % N2) + 1]
                  [((n - 1) % N3) + 1]]

\* transformed.reshape(shape) of N points, shape the shape of a grid
ReshapeToGrid(transformed, coords) ==
    LET N2 == Len(coords[1])
        N3 == Len(coords[1][1])
    IN  [i \in DOMAIN coords |-> [j \in 1..N2 |-> [k \in 1..N3 |->
            transformed[(i - 1) * N2 * N3 + (j - 1) * N3 + k]]]]

\* rotate_wxyz (lines 244-276): coords has shape (N1, N2, N3, 3)
rotate_wxyz(coords, qw, qx, qy, qz, inverse) ==
    LET wxyz == <<qw, qx, qy, qz>>
        rotation == SO3_from_quaternion_xyzw(wxyz)
        applied == IF inverse THEN SO3_inverse(rotation) ELSE rotation
        points == ReshapeToPoints(coords)
        transformed == [n \in DOMAIN points |-> SO3_apply(applied, points[n])]
    IN  ReshapeToGrid(transformed, coords)

\* translate (lines 280-310): density has shape (N1, N2, N3)
translate(density, coords, tx, ty) ==
    LET xyz == <<tx, ty, 0>>
        matmul(point) == point[1] * xyz[1] + point[2] * xyz[2] + point[3] * xyz[3]
    IN  [i \in DOMAIN density |-> [j \in DOMAIN density[i] |->
            [k \in DOMAIN density[i][j] |->
                CMul(density[i][j][k], ExpQuarterTurns(matmul(coords[i][j][k])))]]]

\* QuaternionPose.transform (lines 112-123); iter_data() lists the fields
\* offset_x, offset_y, view_qw, view_qx, view_qy, view_qz in this order
QuaternionPose_transform(self, density, coordinates, real) ==
    IF real
    THEN <<density,
           rotate_and_translate_wxyz(coordinates, self.offset_x, self.offset_y,
                                     self.view_qw, self.view_qx, self.view_qy,
                                     self.view_qz)>>
    ELSE <<translate(density, coordinates, self.offset_x, self.offset_y),
           rotate_wxyz(coordinates, self.view_qw, self.view_qx, self.view_qy,
                       self.view_qz, TRUE)>>

(***************************************************************************)
(* Viewing a point cloud (jax_2dtm) and a specimen (cryojax) at a pose.    *)
(***************************************************************************)
\* The unit quaternions with integer or half-integer components, doubled.
UnitQuaternions ==
    {q \in [1..4 -> {-2, -1, 0, 1, 2}] :
        q[1] * q[1] + q[2] * q[2] + q[3] * q[3] + q[4] * q[4] = 4}

QuaternionPose(offset_x, offset_y, q) ==
    [offset_x |-> offset_x, offset_y |-> offset_y,
     view_qw |-> q[1], view_qx |-> q[2], view_qy |-> q[3], view_qz |-> q[4]]

\* QuaternionPose(): offsets 0.0, view_qw = 1.0, view_qx = view_qy = view_qz = 0.0
DefaultQuaternionPose == QuaternionPose(0, 0, <<2, 0, 0, 0>>)

Offsets == {<<0, 0>>, <<1, -2>>}

QuaternionPoses ==
    {QuaternionPose(t[1], t[2], q) : t \in Offsets, q \in UnitQuaternions}

\* Coordinates of shape (N, 3).
PointLists == { <<<<1, 2, 3>>, <<0, -1, 4>>>>, <<<<2, 0, -1>>>> }

\* Coordinates of shape (N1, N2, N3, 3): shapes (1, 1, 2) and (2, 1, 1).
CoordinateGrids ==
    { << << << <<1, 2, 3>>, <<0, -1, 4>> >> >> >>,
      << << << <<2, 0, -1>> >> >>, << << <<1, 2, 3>> >> >> >> }

\* The clouds: real-space ones with a density of shape (N,) and Fourier
\* ones with a complex density of shape (N1, N2, N3).
Clouds ==
    { [density |-> [n \in DOMAIN coordinates |-> 2 * n + 1],
       coordinates |-> coordinates, box_size |-> <<8, 8, 8>>, real |-> TRUE] :
          coordinates \in PointLists }
    \cup
    { [density |-> [i \in DOMAIN coordinates |->
                       [j \in DOMAIN coordinates[i] |->
                           [k \in DOMAIN coordinates[i][j] |-> Complex(i + k, 1)]]],
       coordinates |-> coordinates, box_size |-> <<8, 8, 8>>, real |-> FALSE] :
          coordinates \in CoordinateGrids }

\* self.replace(coordinates=coordinates, density=density) of line 50, the
\* two taken from the pair (density, coordinates) the pose returns
Cloud_replace(self, transformed) ==
    [self EXCEPT !.coordinates = transformed[2], !.density = transformed[1]]

\* Cloud.view (lines 36-50)
Cloud_view(self, pose) ==
    Cloud_replace(self, QuaternionPose_transform(pose, self.density,
                                                 self.coordinates, self.real))

\* ElectronDensity.view(pose) of a point-cloud density: a new density with
\* the coordinates rotated and translated, the weights kept.
ElectronDensity_view(self, pose) ==
    [self EXCEPT
        !.coordinates =
            rotate_and_translate_wxyz(@, pose.offset_x, pose.offset_y,
                                      pose.view_qw, pose.view_qx, pose.view_qy,
                                      pose.view_qz)]

ElectronDensities ==
    { [weights |-> [n \in DOMAIN coordinates |-> 3 * n],
       coordinates |-> coordinates] : coordinates \in PointLists }

Resolutions == {1, 2}

CryojaxSpecimens ==
    { [density |-> density, resolution |-> resolution] :
          density \in ElectronDensities, resolution \in Resolutions }

\* Specimen.view (lines 35-46)
Specimen_view(self, pose) ==
    [self EXCEPT !.density = ElectronDensity_view(self.density, pose)]

\* A cloud and a specimen are at hand, nothing viewed yet.
ViewInit ==
    /\ cloud \in Clouds
    /\ the_specimen \in CryojaxSpecimens
    /\ view_last = [op |-> "none"]

\* A view that stores what it computes into the receiver.
ViewCloudInPlace(pose) ==
    /\ view_last' = [op |-> "Cloud.view", receiver |-> cloud, pose |-> pose,
                     result |-> Cloud_view(cloud, pose)]
    /\ cloud' = Cloud_view(cloud, pose)
    /\ UNCHANGED the_specimen
    /\ OnlyViews

\* cloud.view(pose)
ViewCloud(pose) ==
    /\ view_last' = [op |-> "Cloud.view", receiver |-> cloud, pose |-> pose,
                     result |-> Cloud_view(cloud, pose)]
    /\ UNCHANGED <<cloud, the_specimen>>
    /\ OnlyViews

\* specimen.view(pose)
ViewSpecimen(pose) ==
    /\ view_last' = [op |-> "Specimen.view", receiver |-> the_specimen,
                     pose |-> pose,
                     result |-> Specimen_view(the_specimen, pose)]
    /\ UNCHANGED <<cloud, the_specimen>>
    /\ OnlyViews

\* rotate_wxyz(coords, qw, qx, qy, qz, inverse)
RotateWxyz(coords, q, inverse) ==
    /\ view_last' = [op |-> "rotate_wxyz", coords |-> coords, wxyz |-> q,
                     inverse |-> inverse,
                     result |-> rotate_wxyz(coords, q[1], q[2], q[3], q[4], inverse)]
    /\ UNCHANGED <<cloud, the_specimen>>
    /\ OnlyViews

\* rotate_and_translate_wxyz(coords, tx, ty, qw, qx, qy, qz)
RotateAndTranslateWxyz(coords, t, q) ==
    /\ view_last' = [op |-> "rotate_and_translate_wxyz", coords |-> coords,
                     wxyz |-> q, tx |-> t[1], ty |-> t[2],
                     result |-> rotate_and_translate_wxyz(
                                    coords, t[1], t[2], q[1], q[2], q[3], q[4])]
    /\ UNCHANGED <<cloud, the_specimen>>
    /\ OnlyViews

ViewStep ==
    \/ \E pose \in QuaternionPoses : ViewCloud(pose)
    \/ \E pose \in QuaternionPoses : ViewSpecimen(pose)
    \/ \E coords \in CoordinateGrids, q \in UnitQuaternions, inverse \in BOOLEAN :
          RotateWxyz(coords, q, inverse)
    \/ \E coords \in PointLists, t \in Offsets, q \in UnitQuaternions :
          RotateAndTranslateWxyz(coords, t, q)

(***************************************************************************)
(* Images.  An image is the expression that computes it: a record whose    *)
(* field op names the operation and whose other fields are its operands,   *)
(* so that two images are equal exactly when they are computed by the      *)
(* same operations from the same objects.                                  *)
(***************************************************************************)
fft(image) == [op |-> "fft", image |-> image]

ifft(image) == [op |-> "ifft", image |-> image]

irfft(image) == [op |-> "irfft", image |-> image]

\* ctf * image, an elementwise product
Times(left, right) == [op |-> "mul", left |-> left, right |-> right]

\* image + ice, an elementwise sum
Plus(left, right) == [op |-> "add", left |-> left, right |-> right]

\* filter(image) of one filter, mask(image) of one mask
ApplyFilter(filter, image) == [op |-> "filter", filter |-> filter, image |-> image]

ApplyMask(mask, image) == [op |-> "mask", mask |-> mask, image |-> image]

\* scattering.crop(image) and scattering.pad(image, constant_values=mean)
crop(scattering, image) == [op |-> "crop", scattering |-> scattering, image |-> image]

pad(scattering, image) == [op |-> "pad", scattering |-> scattering, image |-> image]

\* rescale_image(image, std, mean), std and mean those of the image `like`
rescale_image(image, like) == [op |-> "rescale_image", image |-> image, like |-> like]

\* state.exposure.rescale(image)
exposure_rescale(exposure, image) ==
    [op |-> "exposure.rescale", exposure |-> exposure, image |-> image]

\* Specimen.scatter (specimen.py lines 48-58):
\* self.density.scatter(scattering, self.resolution)
Specimen_scatter(self, scattering) ==
    [op |-> "density.scatter", density |-> self.density,
     resolution |-> self.resolution, scattering |-> scattering]

\* state.optics(scattering.padded_freqs / scattering.pixel_size)
optics_ctf(optics, scattering) ==
    [op |-> "optics", optics |-> optics, scattering |-> scattering]

\* state.ice.sample(scattering.padded_freqs / scattering.pixel_size)
ice_sample(ice, scattering) ==
    [op |-> "ice.sample", noise |-> ice, scattering |-> scattering]

\* state.detector.sample(scattering.freqs / scattering.pixel_size)
detector_sample(detector, scattering) ==
    [op |-> "detector.sample", noise |-> detector, scattering |-> scattering]

\* `given or stored` of an optional argument
Or(given, stored) == IF given = None THEN stored ELSE given[1]

\* obj.update of the keyword arguments params: a copy of obj in which every
\* field that params names holds the value params gives it.
update(obj, params) ==
    [name \in DOMAIN obj |->
        IF name \in DOMAIN params THEN params[name] ELSE obj[name]]

(***************************************************************************)
(* cryojax.simulator.image: Image and its subclasses.                      *)
(***************************************************************************)
\* Image.filter (lines 151-155)
RECURSIVE cryojax_Image_filter(_, _)
cryojax_Image_filter(filters, image) ==
    IF filters = <<>> THEN image
    ELSE cryojax_Image_filter(Tail(filters), ApplyFilter(Head(filters), image))

\* Image.mask (lines 157-161)
RECURSIVE cryojax_Image_mask(_, _)
cryojax_Image_mask(masks, image) ==
    IF masks = <<>> THEN image
    ELSE cryojax_Image_mask(Tail(masks), ApplyMask(Head(masks), image))

\* The `if view:` block of render (lines 215-222, 289-295): crop,
\* rescale to the exposure, mask, back to Fourier space
ViewOfImage(self, state, image) ==
    fft(cryojax_Image_mask(self.masks,
            exposure_rescale(state.exposure, crop(self.scattering, ifft(image)))))

\* The view of a sampled noise (lines 245-249, 323-327): crop and mask
ViewOfNoise(self, sampled) ==
    fft(cryojax_Image_mask(self.masks, crop(self.scattering, ifft(sampled))))

\* Lines 210-213 of ScatteringImage.render: the specimen and the scattering
\* configuration are those of self, whatever the call was given
FilteredScatteringImage(self, state) ==
    cryojax_Image_filter(
        self.filters,
        Specimen_scatter(Specimen_view(self.specimen, state.pose), self.scattering))

\* ScatteringImage.render (lines 198-224)
cryojax_ScatteringImage_render(self, state_arg, scattering_arg, specimen_arg, view) ==
    LET state == Or(state_arg, self.state)
        scattering == Or(scattering_arg, self.scattering)
        specimen == Or(specimen_arg, self.specimen)
    IN  IF view
        THEN ViewOfImage(self, state, FilteredScatteringImage(self, state))
        ELSE FilteredScatteringImage(self, state)

\* OpticsImage.render (lines 269-297)
cryojax_OpticsImage_render(self, state_arg, scattering_arg, specimen_arg) ==
    LET state == Or(state_arg, self.state)
        scattering == Or(scattering_arg, self.scattering)
        specimen == Or(specimen_arg, self.specimen)
    IN  ViewOfImage(self, state,
            Times(optics_ctf(state.optics, self.scattering),
                  cryojax_ScatteringImage_render(self, Some(state), Some(scattering),
                                                 Some(specimen), FALSE)))

\* self.render(...): the render of the receiver's class
cryojax_render(self, state_arg, scattering_arg, specimen_arg) ==
    IF self.cls = "ScatteringImage"
    THEN cryojax_ScatteringImage_render(self, state_arg, scattering_arg,
                                        specimen_arg, TRUE)
    ELSE cryojax_OpticsImage_render(self, state_arg, scattering_arg, specimen_arg)

\* ScatteringImage.sample (lines 226-251)
cryojax_ScatteringImage_sample(self, state_arg, scattering_arg, specimen_arg) ==
    LET state == Or(state_arg, self.state)
        scattering == Or(scattering_arg, self.scattering)
        specimen == Or(specimen_arg, self.specimen)
    IN  Plus(cryojax_render(self, Some(state), Some(scattering), Some(specimen)),
             ViewOfNoise(self, cryojax_Image_filter(
                                   self.filters,
                                   ice_sample(state.ice, self.scattering))))

\* OpticsImage.sample (lines 299-329)
cryojax_OpticsImage_sample(self, state_arg, scattering_arg, specimen_arg) ==
    LET state == Or(state_arg, self.state)
        scattering == Or(scattering_arg, self.scattering)
        specimen == Or(specimen_arg, self.specimen)
    IN  Plus(cryojax_render(self, Some(state), Some(scattering), Some(specimen)),
             ViewOfNoise(self, Times(optics_ctf(state.optics, self.scattering),
                                     cryojax_Image_filter(
                                         self.filters,
                                         ice_sample(state.ice, self.scattering)))))

\* The noise of the detector in the view (lines 353-359)
DetectorNoise(self, state) ==
    fft(cryojax_Image_mask(self.masks,
                           ifft(detector_sample(state.detector, self.scattering))))

\* DetectorImage.sample (lines 339-361): super().sample(state)
cryojax_DetectorImage_sample(self, state_arg, scattering_arg, specimen_arg) ==
    LET state == Or(state_arg, self.state)
        scattering == Or(scattering_arg, self.scattering)
        specimen == Or(specimen_arg, self.specimen)
    IN  Plus(cryojax_OpticsImage_sample(self, Some(state), None, None),
             DetectorNoise(self, state))

\* self.sample(...): the sample of the receiver's class
cryojax_sample(self, state_arg, scattering_arg, specimen_arg) ==
    IF self.cls = "ScatteringImage"
    THEN cryojax_ScatteringImage_sample(self, state_arg, scattering_arg, specimen_arg)
    ELSE IF self.cls = "OpticsImage"
    THEN cryojax_OpticsImage_sample(self, state_arg, scattering_arg, specimen_arg)
    ELSE cryojax_DetectorImage_sample(self, state_arg, scattering_arg, specimen_arg)

\* Image.residuals (lines 163-177)
cryojax_Image_residuals(self, state_arg, scattering_arg, specimen_arg) ==
    LET state == Or(state_arg, self.state)
        scattering == Or(scattering_arg, self.scattering)
        specimen == Or(specimen_arg, self.specimen)
    IN  [op |-> "residuals", observed |-> self.observed,
         simulated |-> cryojax_render(self, Some(state), Some(scattering),
                                      Some(specimen))]

\* GaussianImage.log_likelihood (lines 379-401): the variance is that of the
\* detector, plus that of the ice seen through the optics unless the ice is
\* a NullIce.
cryojax_GaussianImage_log_likelihood(self, state_arg, scattering_arg, specimen_arg) ==
    LET state == Or(state_arg, self.state)
        scattering == Or(scattering_arg, self.scattering)
        specimen == Or(specimen_arg, self.specimen)
    IN  [op |-> "gaussian_loss",
         residuals |-> cryojax_Image_residuals(self, Some(state), Some(scattering),
                                               Some(specimen)),
         variance |->
             [op |-> "variance", detector |-> state.detector,
              ice |-> IF state.ice.cls # "NullIce"
                      THEN Some([noise |-> state.ice, optics |-> state.optics])
                      ELSE None,
              scattering |-> self.scattering]]

\* What a method call comes to: a returned value or a raised exception.
Returned(value) == [raised |-> None, value |-> Some(value)]

Raised(exception) == [raised |-> Some(exception), value |-> None]

\* self.log_likelihood(...): ScatteringImage.log_likelihood (lines 253-259)
\* raises NotImplementedError and only GaussianImage overrides it
cryojax_log_likelihood(self, state_arg, scattering_arg, specimen_arg) ==
    IF self.cls = "GaussianImage"
    THEN Returned(cryojax_GaussianImage_log_likelihood(
                      self, state_arg, scattering_arg, specimen_arg))
    ELSE Raised("NotImplementedError")

\* A call that samples when data is stored and evaluates the likelihood
\* when none is.
ImageCallDispatchSwapped(self, params) ==
    LET state == update(self.state, params)
        scattering == update(self.scattering, params)
        specimen == update(self.specimen, params)
    IN  IF self.observed # None
        THEN Returned(cryojax_sample(self, Some(state), Some(scattering),
                                     Some(specimen)))
        ELSE cryojax_log_likelihood(self, Some(state), Some(scattering),
                                    Some(specimen))

\* Image.__call__ (lines 129-149)
cryojax_Image_call(self, params) ==
    LET state == update(self.state, params)
        scattering == update(self.scattering, params)
        specimen == update(self.specimen, params)
    IN  IF self.observed = None
        THEN Returned(cryojax_sample(self, Some(state), Some(scattering),
                                     Some(specimen)))
        ELSE cryojax_log_likelihood(self, Some(state), Some(scattering),
                                    Some(specimen))

\* scattering.padded_freqs, the wave vectors of the padded grid
padded_freqs(scattering) == [op |-> "fftfreqs", shape |-> scattering.padded_shape]

\* AntiAliasingFilter(freqs) of cryojax
cryojax_AntiAliasingFilter(freqs) ==
    [cls |-> "AntiAliasingFilter", config |-> None, freqs |-> freqs]

\* Image.__post_init__ (lines 74-95); the assertions of lines 90 and 92
\* hold by what pad and crop return
cryojax_Image_post_init(self, filters_arg, masks_arg, observed_arg) ==
    LET filters == IF filters_arg = None
                   THEN <<cryojax_AntiAliasingFilter(padded_freqs(self.scattering))>>
                   ELSE filters_arg[1]
        masks == IF masks_arg = None THEN <<>> ELSE masks_arg[1]
        raw == irfft(observed_arg[1])
        padded == fft(pad(self.scattering, raw))
        cropped == crop(self.scattering,
                        irfft(cryojax_Image_filter(filters, padded)))
        processed == fft(cryojax_Image_mask(masks, rescale_image(cropped, raw)))
        with_lists == [module |-> "cryojax", cls |-> self.cls,
                       state |-> self.state, scattering |-> self.scattering,
                       specimen |-> self.specimen,
                       set_observed |-> self.set_observed,
                       filters |-> filters, masks |-> masks]
    IN  IF observed_arg # None /\ self.set_observed
        THEN IF self.scattering.shape # observed_arg[1].shape
             THEN Raised("AssertionError")
             ELSE Returned(with_lists @@ [observed |-> Some(processed)])
        ELSE Returned(with_lists @@ [observed |-> observed_arg])

\* isinstance(noise, GaussianNoise)
IsGaussianNoise(noise) == noise.is_gaussian_noise

\* GaussianImage.__post_init__ (lines 374-377)
cryojax_GaussianImage_post_init(self, filters_arg, masks_arg, observed_arg) ==
    LET initialised == cryojax_Image_post_init(self, filters_arg, masks_arg, observed_arg)
    IN  IF initialised.raised # None
        THEN initialised
        ELSE IF ~IsGaussianNoise(self.state.ice)
        THEN Raised("AssertionError")
        ELSE IF ~IsGaussianNoise(self.state.detector)
        THEN Raised("AssertionError")
        ELSE initialised

(***************************************************************************)
(* The objects cryojax image models are built from.                        *)
(***************************************************************************)
CryojaxImageClasses ==
    {"ScatteringImage", "OpticsImage", "DetectorImage", "GaussianImage"}

IceModels ==
    { [cls |-> "NullIce", is_gaussian_noise |-> FALSE],
      [cls |-> "EmpiricalIce", is_gaussian_noise |-> TRUE] }

DetectorModels ==
    { [cls |-> "NullDetector", is_gaussian_noise |-> FALSE],
      [cls |-> "WhiteNoiseDetector", is_gaussian_noise |-> TRUE] }

\* The pose a pipeline state starts with and the pose a parameter set may
\* put in its place.
TiltedPose == QuaternionPose(1, -2, <<1, 1, 1, 1>>)

PipelineStates ==
    { [pose |-> TiltedPose, optics |-> [defocus |-> 8],
       exposure |-> [dose |-> 1], ice |-> ice, detector |-> detector] :
          ice \in IceModels, detector \in DetectorModels }

ScatteringConfigs ==
    { [shape |-> <<2, 2>>, padded_shape |-> <<4, 4>>, pixel_size |-> 1] }

ImageSpecimens == {sp \in CryojaxSpecimens :
                      sp.resolution = 1 /\ Len(sp.density.coordinates) = 2}

\* Filters and masks a caller may supply.
CryojaxFilterPool ==
    { [cls |-> "LowpassFilter", config |-> None,
       freqs |-> [op |-> "fftfreqs", shape |-> <<4, 4>>]],
      [cls |-> "WhiteningFilter", config |-> None,
       freqs |-> [op |-> "fftfreqs", shape |-> <<4, 4>>]] }

CryojaxFilterArgs ==
    {None} \cup {Some(filters) : filters \in SeqsUpTo(CryojaxFilterPool, MaxFilters)}

MaskArgs == {None, Some(<<[cls |-> "CircularMask"]>>)}

\* Observed data in Fourier space, of the shape of the configuration and of
\* another shape.
Observations ==
    { [op |-> "data", shape |-> <<2, 2>>], [op |-> "data", shape |-> <<3, 3>>] }

ObservedArgs == {None} \cup {Some(observed) : observed \in Observations}

\* The parameter sets of a call: none, a resolution of the specimen, a
\* pixel size of the configuration, a pose of the state, and two at once.
EmptyParams == [name \in {} |-> 0]

ParameterSets ==
    { EmptyParams,
      [resolution |-> 2],
      [pixel_size |-> 2],
      [pose |-> DefaultQuaternionPose],
      [pose |-> DefaultQuaternionPose, resolution |-> 2] }

\* The construction of a cryojax image model: the dataclass __init__ stores
\* the fields and runs __post_init__(filters, masks, observed) of the class.
cryojax_init(self, filters_arg, masks_arg, observed_arg) ==
    IF self.cls = "GaussianImage"
    THEN cryojax_GaussianImage_post_init(self, filters_arg, masks_arg, observed_arg)
    ELSE cryojax_Image_post_init(self, filters_arg, masks_arg, observed_arg)

\* GaussianImage(scattering, specimen, state, filters, masks, observed) and
\* the like
CryojaxImageInit(cls, state, scattering, specimen_arg, filters, masks, observed, set_observed) ==
    /\ image_last.op = "none"
    /\ \E outcome \in {cryojax_init([cls |-> cls, state |-> state,
                                      scattering |-> scattering,
                                      specimen |-> specimen_arg,
                                      set_observed |-> set_observed],
                                     filters, masks, observed)} :
           /\ images' = IF outcome.raised = None THEN outcome.value ELSE <<>>
           /\ image_last' = [op |-> "cryojax.Image.__init__", cls |-> cls,
                             state |-> state, filters |-> filters,
                             masks |-> masks, observed |-> observed,
                             raised |-> outcome.raised]
    /\ OnlyImages

\* model(params) on the cryojax image model constructed
CryojaxImageCall(params) ==
    /\ images # <<>>
    /\ images[1].module = "cryojax"
    /\ \E outcome \in {cryojax_Image_call(images[1], params)} :
           image_last' = [op |-> "cryojax.Image.__call__", receiver |-> images[1],
                          params |-> params, raised |-> outcome.raised,
                          value |-> outcome.value]
    /\ UNCHANGED images
    /\ OnlyImages

(***************************************************************************)
(* jax_2dtm.simulator.image: ImageModel and its subclasses.                *)
(***************************************************************************)
\* fftfreqs(config.shape, config.pixel_size)
fftfreqs(shape, pixel_size) ==
    [op |-> "fftfreqs", shape |-> shape, pixel_size |-> pixel_size]

\* AntiAliasingFilter(config, freqs) of jax_2dtm
jax_2dtm_AntiAliasingFilter(config, freqs) ==
    [cls |-> "AntiAliasingFilter", config |-> Some(config), freqs |-> freqs]

\* Cloud.project (cloud.py lines 52-65):
\* scattering.project(density, coordinates, box_size)
Cloud_project(self, scattering) ==
    [op |-> "project", density |-> self.density,
     coordinates |-> self.coordinates, box_size |-> self.box_size,
     scattering |-> scattering]

\* the loop of ScatteringImage.render over self.filters (lines 148-149)
RECURSIVE jax_2dtm_apply_filters(_, _)
jax_2dtm_apply_filters(filters, image) ==
    IF filters = <<>> THEN image
    ELSE jax_2dtm_apply_filters(Tail(filters), ApplyFilter(Head(filters), image))

\* ScatteringImage.render (lines 142-151)
jax_2dtm_ScatteringImage_render(self, state) ==
    jax_2dtm_apply_filters(
        self.filters,
        Cloud_project(Cloud_view(self.cloud, state.pose), self.config))

\* OpticsImage.render (lines 167-175)
jax_2dtm_OpticsImage_render(self, state) ==
    Times([op |-> "optics", optics |-> state.optics, freqs |-> self.freqs],
          jax_2dtm_ScatteringImage_render(self, state))

\* self.render(state): the render of the receiver's class
jax_2dtm_render(self, state) ==
    IF self.cls = "ScatteringImage"
    THEN jax_2dtm_ScatteringImage_render(self, state)
    ELSE jax_2dtm_OpticsImage_render(self, state)

\* self.sample(state): ScatteringImage.sample (lines 153-154), which
\* GaussianImage overrides (lines 192-194)
jax_2dtm_sample(self, state) ==
    IF self.cls = "GaussianImage"
    THEN Plus(jax_2dtm_render(self, state),
              [op |-> "noise.sample", noise |-> state.noise,
               config |-> self.config, freqs |-> self.freqs])
    ELSE jax_2dtm_render(self, state)

\* self.log_likelihood(observed, state): ScatteringImage.log_likelihood
\* (lines 156-157) raises, GaussianImage overrides it (lines 196-204)
jax_2dtm_log_likelihood(self, observed, state) ==
    IF self.cls = "GaussianImage"
    THEN Returned([op |-> "gaussian_loss",
                   residuals |-> [op |-> "residuals", observed |-> Some(observed),
                                  simulated |-> jax_2dtm_render(self, state)],
                   variance |-> [op |-> "noise.variance", noise |-> state.noise,
                                 freqs |-> self.freqs]])
    ELSE Raised("NotImplementedError")

\* ImageModel.__call__ (lines 90-104)
jax_2dtm_ImageModel_call(self, params) ==
    LET state == update(self.state, params)
    IN  IF self.observed = None
        THEN Returned(jax_2dtm_sample(self, state))
        ELSE jax_2dtm_log_likelihood(self, self.observed[1], state)

\* ImageModel.__post_init__ (lines 65-73)
jax_2dtm_ImageModel_post_init(self, observed_arg) ==
    LET freqs == fftfreqs(self.config.shape, self.config.pixel_size)
        with_freqs == [module |-> "jax_2dtm", cls |-> self.cls,
                       state |-> self.state, config |-> self.config,
                       cloud |-> self.cloud, freqs |-> freqs]
    IN  IF observed_arg # None
        THEN IF self.config.shape # observed_arg[1].shape
             THEN Raised("AssertionError")
             ELSE Returned(with_freqs @@ [observed |-> Some(fft(observed_arg[1]))])
        ELSE Returned(with_freqs @@ [observed |-> None])

\* `filters or default`: None and the empty list are both falsy
FalsyList(filters_arg) == filters_arg = None \/ filters_arg[1] = <<>>

\* ScatteringImage.__post_init__ (lines 132-140); `is` holds of two equal
\* configurations and of two equal arrays of wave vectors
jax_2dtm_ScatteringImage_post_init(self, observed_arg, filters_arg) ==
    LET initialised == jax_2dtm_ImageModel_post_init(self, observed_arg)
        model == initialised.value[1]
        filters == IF FalsyList(filters_arg)
                   THEN <<jax_2dtm_AntiAliasingFilter(model.config, model.freqs)>>
                   ELSE filters_arg[1]
    IN  IF initialised.raised # None
        THEN initialised
        ELSE IF \E k \in DOMAIN filters : filters[k].config # Some(model.config)
        THEN Raised("AssertionError")
        ELSE IF \E k \in DOMAIN filters : filters[k].freqs # model.freqs
        THEN Raised("AssertionError")
        ELSE Returned(model @@ [filters |-> filters])

\* The init-only fields the dataclass __init__ hands to __post_init__, and
\* the parameters __post_init__ of a class takes besides self: that of
\* GaussianImage (line 188) takes none.
InitVars == <<"observed", "filters">>

PostInitParameters(cls) ==
    IF cls = "GaussianImage" THEN <<>> ELSE <<"observed", "filters">>

\* GaussianImage.__post_init__ (lines 188-190): super().__post_init__() is
\* called without the two arguments ScatteringImage.__post_init__ requires
jax_2dtm_GaussianImage_post_init(self) == Raised("TypeError")

\* The construction of a jax_2dtm image model: the dataclass __init__ stores
\* the fields and calls self.__post_init__(observed, filters).
jax_2dtm_init(self, observed_arg, filters_arg) ==
    IF Len(PostInitParameters(self.cls)) # Len(InitVars)
    THEN Raised("TypeError")
    ELSE IF self.cls = "GaussianImage"
    THEN jax_2dtm_GaussianImage_post_init(self)
    ELSE jax_2dtm_ScatteringImage_post_init(self, observed_arg, filters_arg)

(***************************************************************************)
(* The objects jax_2dtm image models are built from.                       *)
(***************************************************************************)
Jax2dtmImageClasses == {"ScatteringImage", "OpticsImage", "GaussianImage"}

NoiseModels ==
    { [cls |-> "NullNoise", is_gaussian_noise |-> FALSE],
      [cls |-> "WhiteNoise", is_gaussian_noise |-> TRUE] }

ParameterStates ==
    { [pose |-> TiltedPose, optics |-> [defocus |-> 8], noise |-> noise] :
          noise \in NoiseModels }

\* The configuration of the models and another one.
ModelConfig == [shape |-> <<2, 2>>, pixel_size |-> 1]

OtherConfig == [shape |-> <<2, 2>>, pixel_size |-> 3]

ModelClouds == {c \in Clouds : c.real /\ Len(c.coordinates) = 2}

\* Filters a caller may supply: two built on the configuration and the wave
\* vectors of the model, one built on another configuration.
Jax2dtmFilterPool ==
    { [cls |-> "LowpassFilter", config |-> Some(ModelConfig),
       freqs |-> fftfreqs(ModelConfig.shape, ModelConfig.pixel_size)],
      [cls |-> "WhiteningFilter", config |-> Some(ModelConfig),
       freqs |-> fftfreqs(ModelConfig.shape, ModelConfig.pixel_size)],
      [cls |-> "LowpassFilter", config |-> Some(OtherConfig),
       freqs |-> fftfreqs(OtherConfig.shape, OtherConfig.pixel_size)] }

Jax2dtmFilterArgs ==
    {None} \cup {Some(filters) : filters \in SeqsUpTo(Jax2dtmFilterPool, MaxFilters)}

\* GaussianImage(state, config, cloud, observed, filters) and the like
Jax2dtmImageInit(cls, state, config, cloud_arg, observed, filters) ==
    /\ image_last.op = "none"
    /\ \E outcome \in {jax_2dtm_init([cls |-> cls, state |-> state,
                                       config |-> config, cloud |-> cloud_arg],
                                      observed, filters)} :
           /\ images' = IF outcome.raised = None THEN outcome.value ELSE <<>>
           /\ image_last' = [op |-> "jax_2dtm.ImageModel.__init__", cls |-> cls,
                             state |-> state, config |-> config,
                             cloud |-> cloud_arg, filters |-> filters,
                             masks |-> None, observed |-> observed,
                             raised |-> outcome.raised]
    /\ OnlyImages

\* model(params) on the jax_2dtm image model constructed
Jax2dtmImageCall(params) ==
    /\ images # <<>>
    /\ images[1].module = "jax_2dtm"
    /\ \E outcome \in {jax_2dtm_ImageModel_call(images[1], params)} :
           image_last' = [op |-> "jax_2dtm.ImageModel.__call__",
                          receiver |-> images[1], params |-> params,
                          raised |-> outcome.raised, value |-> outcome.value]
    /\ UNCHANGED images
    /\ OnlyImages

ImageStep ==
    \/ \E cls \in CryojaxImageClasses, state \in PipelineStates,
          scattering \in ScatteringConfigs, specimen_arg \in ImageSpecimens,
          filters \in CryojaxFilterArgs, masks \in MaskArgs,
          observed \in ObservedArgs, set_observed \in BOOLEAN :
            CryojaxImageInit(cls, state, scattering, specimen_arg, filters,
                             masks, observed, set_observed)
    \/ \E params \in ParameterSets : CryojaxImageCall(params)
    \/ \E cls \in Jax2dtmImageClasses, state \in ParameterStates,
          cloud_arg \in ModelClouds, observed \in ObservedArgs,
          filters \in Jax2dtmFilterArgs :
            Jax2dtmImageInit(cls, state, ModelConfig, cloud_arg, observed, filters)
    \/ \E params \in ParameterSets : Jax2dtmImageCall(params)

(***************************************************************************)
(* The specifications: one call of the voxel grid builder; the life of     *)
(* the atomic potential objects; the life of the scattering theories.      *)
(***************************************************************************)
InitVoxel == VoxelInit /\ PotentialsInit /\ TheoriesInit /\ TransferInit /\ IntegrationIdle /\ ViewIdle /\ ImagesInit

SpecVoxel == InitVoxel /\ [][VoxelStep]_vars

InitPotential == VoxelIdle /\ PotentialsInit /\ TheoriesInit /\ TransferInit /\ IntegrationIdle /\ ViewIdle /\ ImagesInit

SpecPotential == InitPotential /\ [][PotentialStep]_vars

InitTheory == VoxelIdle /\ PotentialsInit /\ TheoriesInit /\ TransferInit /\ IntegrationIdle /\ ViewIdle /\ ImagesInit

SpecTheory == InitTheory /\ [][TheoryStep]_vars

InitScattering == VoxelIdle /\ PotentialsInit /\ TheoryConstructed /\ TransferInit /\ IntegrationIdle /\ ViewIdle /\ ImagesInit

SpecScattering == InitScattering /\ [][ScatteringStep]_vars

InitTransfer == VoxelIdle /\ PotentialsInit /\ TheoriesInit /\ TransferInit /\ IntegrationIdle /\ ViewIdle /\ ImagesInit

SpecTransfer == InitTransfer /\ [][TransferStep]_vars

InitIntegrator == VoxelIdle /\ PotentialsInit /\ TheoriesInit /\ TransferInit /\ IntegrationStart /\ ViewIdle /\ ImagesInit

SpecIntegrator == InitIntegrator /\ [][IntegratorStep]_vars

InitView == VoxelIdle /\ PotentialsInit /\ TheoriesInit /\ TransferInit /\ IntegrationIdle /\ ViewInit /\ ImagesInit

SpecView == InitView /\ [][ViewStep]_vars

InitImage == VoxelIdle /\ PotentialsInit /\ TheoriesInit /\ TransferInit /\ IntegrationIdle /\ ViewIdle /\ ImagesInit

SpecImage == InitImage /\ [][ImageStep]_vars

(***************************************************************************)
(* Properties of the voxel grid builder.                                   *)
(***************************************************************************)
BatchSizeValid == 1 <= args.batch_size /\ args.batch_size <= z_dim

\* The grid the same call returns with batch_size = 1.
SequentialGrid ==
    _build_real_space_voxel_potential_from_atoms(
        args.shape, args.voxel_size, args.atom_positions, args.a, args.b, 1)

\* C1: batch-size invariance. The grid returned with any accepted
\* batch_size > 1 has, at every (z, y, x), the value of the grid returned
\* with batch_size = 1, whether or not batch_size divides Z.
C1_BatchSizeInvariance ==
    (pc = "done" /\ args.batch_size > 1) => potential_as_voxel_grid = SequentialGrid

\* A finished call with two full batches and a partial one, whose first and
\* last planes differ.
C1_Witness ==
    /\ pc = "done"
    /\ args.batch_size > 1
    /\ z_dim \div args.batch_size >= 2
    /\ z_dim % args.batch_size # 0
    /\ potential_as_voxel_grid[1] # potential_as_voxel_grid[z_dim]

\* How many times row k of the z integrals was handed to a recombination step.
TimesEvaluated(k) ==
    Cardinality({ij \in {<<i, j>> : i \in DOMAIN evaluated, j \in 1..MaxZ + 1} :
                    /\ ij[2] \in DOMAIN evaluated[ij[1]]
                    /\ evaluated[ij[1]][ij[2]] = k})

\* C2: no silent truncation. The returned grid has exactly Z planes, every
\* row 0..Z-1 is evaluated exactly once, plane k is the plane of row k, and
\* when Z mod b # 0 the last Z mod b rows are evaluated in one extra step
\* whose planes come after the first (Z div b) * b.
C2_NoSilentTruncation ==
    pc = "done" =>
        /\ Len(potential_as_voxel_grid) = z_dim
        /\ \A k \in 0..(z_dim - 1) : TimesEvaluated(k) = 1
        /\ \A k \in 1..z_dim :
               potential_as_voxel_grid[k] =
                   compute_potential_at_z_plane(integrals, integrals.z[k])
        /\ (z_dim % args.batch_size # 0 =>
               LET full == (z_dim \div args.batch_size) * args.batch_size
               IN  /\ Len(evaluated) = (z_dim \div args.batch_size) + 1
                   /\ evaluated[Len(evaluated)] =
                          [j \in 1..(z_dim - full) |-> full + j - 1]
                   /\ \A i \in 1..(Len(evaluated) - 1) :
                          \A j \in DOMAIN evaluated[i] : evaluated[i][j] < full)

\* A finished call whose last batch was partial and held two rows.
C2_Witness ==
    /\ pc = "done"
    /\ z_dim % args.batch_size = 2
    /\ Len(evaluated) >= 2
    /\ Len(args.atom_positions) >= 1

\* C3: batch-size range. The call raises, and returns no grid, for every
\* batch_size < 1 and every batch_size > shape[0]; for 1 <= batch_size <=
\* shape[0] it never raises and runs on until it returns a grid.
C3_BatchSizeRange ==
    /\ pc = "raised" => ~BatchSizeValid /\ potential_as_voxel_grid = <<>>
    /\ pc \in {"map", "remainder", "done"} => BatchSizeValid
    /\ pc = "done" => Len(potential_as_voxel_grid) = z_dim
    /\ pc \notin {"done", "raised"} => ENABLED VoxelStep

\* A call that raised on a batch_size below 1.
C3_Witness == pc = "raised" /\ args.batch_size < 1

\* C4: the failure on a batch_size outside 1..shape[0] occurs before any
\* computation: no coordinate grid is built, no 1D integral evaluated and
\* no z plane recombined before the check raises.
C4_RaisesBeforeAnyComputation ==
    pc = "raised" =>
        /\ grids = [x |-> <<>>, y |-> <<>>, z |-> <<>>]
        /\ integrals = [x |-> <<>>, y |-> <<>>, z |-> <<>>]
        /\ evaluated = <<>>

\* The elementwise sum of two grids of the same shape.
AddGrids(p, q) ==
    [k \in DOMAIN p |-> [y \in DOMAIN p[k] |-> [x \in DOMAIN p[k][y] |->
        p[k][y][x] + q[k][y][x]]]]

ZeroGrid(shape) == [k \in 1..shape[1] |-> [y \in 1..shape[2] |-> [x \in 1..shape[3] |-> 0]]]

\* The grid of the call's atoms listed in the order order[1], order[2], ...
GridOfAtoms(order) ==
    _build_real_space_voxel_potential_from_atoms(
        args.shape, args.voxel_size,
        [n \in DOMAIN order |-> args.atom_positions[order[n]]],
        [n \in DOMAIN order |-> args.a[order[n]]],
        [n \in DOMAIN order |-> args.b[order[n]]],
        args.batch_size)

RECURSIVE SumOfSingleAtomGrids(_)
SumOfSingleAtomGrids(n) ==
    IF n = 0 THEN ZeroGrid(args.shape)
    ELSE AddGrids(SumOfSingleAtomGrids(n - 1), GridOfAtoms(<<n>>))

AtomOrders(n) == {p \in [1..n -> 1..n] : \A i, j \in 1..n : p[i] = p[j] => i = j}

\* C5: additivity and atom-order invariance. The grid built from N atoms is
\* the elementwise sum of the N grids built from each atom alone, and
\* listing the atoms in another order changes no voxel value.
C5_AdditivityAndOrderInvariance ==
    pc = "done" =>
        /\ potential_as_voxel_grid = SumOfSingleAtomGrids(Len(args.atom_positions))
        /\ \A p \in AtomOrders(Len(args.atom_positions)) :
               GridOfAtoms(p) = potential_as_voxel_grid

\* A finished call on two different atoms whose single-atom grids differ.
C5_Witness ==
    /\ pc = "done"
    /\ Len(args.atom_positions) = 2
    /\ GridOfAtoms(<<1>>) # GridOfAtoms(<<2>>)
    /\ potential_as_voxel_grid # ZeroGrid(args.shape)

(***************************************************************************)
(* Properties of the atomic potentials.                                    *)
(***************************************************************************)
\* Every field of a potential but its atom_positions.
NonPositionalFields(potential) ==
    [f \in (DOMAIN potential) \ {"atom_positions"} |-> potential[f]]

\* C6: rotate_to_pose returns a new potential whose atom_positions are
\* pose.rotate_coordinates of the receiver's and whose other fields equal the
\* receiver's; no existing potential, the receiver included, is changed by
\* the call, in any sequence of calls.
C6_RotateToPoseFrame ==
    [][last'.op = "rotate_to_pose" =>
          LET receiver == potentials[last'.receiver]
              returned == potentials'[Len(potentials')]
          IN  /\ Len(potentials') = Len(potentials) + 1
              /\ returned.atom_positions =
                     rotate_coordinates(last'.pose, receiver.atom_positions)
              /\ NonPositionalFields(returned) = NonPositionalFields(receiver)
              /\ \A j \in DOMAIN potentials : potentials'[j] = potentials[j]]_vars

\* A potential returned by rotating a potential that was itself returned by
\* a rotation, with positions that differ from its receiver's.
C6_Witness ==
    /\ last.op = "rotate_to_pose"
    /\ Len(potentials) = 3
    /\ last.receiver = 2
    /\ potentials[2].atom_positions # potentials[1].atom_positions
    /\ potentials[3].atom_positions # potentials[2].atom_positions
    /\ potentials[3].atom_positions # potentials[1].atom_positions
    /\ NonPositionalFields(potentials[3]) = NonPositionalFields(potentials[1])

\* C7: constructing a GaussianMixtureAtomicPotential with a width <= 0
\* (zero included) fails at construction, so no such potential exists, and
\* every width handed on by as_real_voxel_grid, after any sequence of
\* rotations, is strictly positive.
C7_WidthsPositive ==
    /\ \A j \in DOMAIN potentials :
           potentials[j].cls = "GaussianMixtureAtomicPotential" =>
               \A w \in Entries2(potentials[j].gaussian_widths) : w > 0
    /\ last.op = "GaussianMixtureAtomicPotential.__init__" =>
           (last.raised <=> \E w \in Entries2(last.gaussian_widths) : w <= 0)
    /\ (/\ last.op = "as_real_voxel_grid"
        /\ potentials[last.receiver].cls = "GaussianMixtureAtomicPotential") =>
           \A w \in Entries2(last.built.b) : w > 0

\* A construction that failed on a width of exactly zero.
C7_Witness ==
    /\ last.op = "GaussianMixtureAtomicPotential.__init__"
    /\ last.raised
    /\ 0 \in Entries2(last.gaussian_widths)
    /\ \A w \in Entries2(last.gaussian_widths) : w >= 0

\* An evaluation of a rotated gaussian-mixture potential.
C7_WitnessEvaluated ==
    /\ last.op = "as_real_voxel_grid"
    /\ last.receiver = 2
    /\ potentials[2].cls = "GaussianMixtureAtomicPotential"
    /\ potentials[2].atom_positions # potentials[1].atom_positions

\* C8: constructing a PengAtomicPotential fails exactly when b_factors is
\* given and has a negative entry; it succeeds with b_factors None (stored
\* as None) and with entries >= 0, zero included.
C8_BFactorsNonNegative ==
    /\ \A j \in DOMAIN potentials :
           potentials[j].cls = "PengAtomicPotential" =>
               \/ potentials[j].b_factors = None
               \/ \A e \in Entries1(potentials[j].b_factors[1]) : e >= 0
    /\ last.op = "PengAtomicPotential.__init__" =>
           /\ last.raised <=>
                  (last.b_factors # None
                   /\ \E e \in Entries1(last.b_factors[1]) : e < 0)
           /\ ~last.raised =>
                  /\ potentials # <<>>
                  /\ potentials[Len(potentials)].cls = "PengAtomicPotential"
                  /\ potentials[Len(potentials)].b_factors = last.b_factors

\* A construction that succeeded with a B-factor of exactly zero.
C8_Witness ==
    /\ last.op = "PengAtomicPotential.__init__"
    /\ ~last.raised
    /\ last.b_factors # None
    /\ 0 \in Entries1(last.b_factors[1])

\* A construction that failed on a negative B-factor.
C8_WitnessRaised ==
    /\ last.op = "PengAtomicPotential.__init__"
    /\ last.raised

\* C9: in PengAtomicPotential.as_real_voxel_grid the width of component i of
\* atom n is scattering_factor_b[n][i] + b_factors[n] when b_factors is
\* given and scattering_factor_b[n][i] when it is None; the amplitudes are
\* scattering_factor_a unchanged.
C9_BFactorBroadening ==
    (/\ last.op = "as_real_voxel_grid"
     /\ potentials[last.receiver].cls = "PengAtomicPotential") =>
        LET potential == potentials[last.receiver]
        IN  /\ last.built.a = potential.scattering_factor_a
            /\ DOMAIN last.built.b = DOMAIN potential.scattering_factor_b
            /\ \A n \in DOMAIN potential.scattering_factor_b :
                   /\ DOMAIN last.built.b[n] = DOMAIN potential.scattering_factor_b[n]
                   /\ \A i \in DOMAIN potential.scattering_factor_b[n] :
                          last.built.b[n][i] =
                              potential.scattering_factor_b[n][i]
                              + (IF potential.b_factors = None THEN 0
                                 ELSE potential.b_factors[1][n])

\* An evaluation of a potential whose two atoms have different, non-zero
\* B-factors.
C9_Witness ==
    /\ last.op = "as_real_voxel_grid"
    /\ potentials[last.receiver].cls = "PengAtomicPotential"
    /\ potentials[last.receiver].b_factors # None
    /\ potentials[last.receiver].b_factors[1][1] # potentials[last.receiver].b_factors[1][2]
    /\ potentials[last.receiver].b_factors[1][2] > 0

(***************************************************************************)
(* Properties of the scattering theories.                                  *)
(***************************************************************************)
\* C10: combining an integrator whose is_integration_complex is true with
\* either weak-phase theory, WeakPhaseScatteringTheory or
\* LinearSuperpositionScatteringTheory, fails at construction: the
\* constructor raises and no such theory object exists.
C10_ComplexIntegratorFailsAtConstruction ==
    /\ \A j \in DOMAIN theories :
           ~theories[j].potential_integrator.is_integration_complex
    /\ theory_last.op \in {"WeakPhaseScatteringTheory.__init__",
                          "LinearSuperpositionScatteringTheory.__init__"} =>
           (theory_last.potential_integrator.is_integration_complex
                => theory_last.raised)

(***************************************************************************)
(* Properties of the calls of the scattering theories.                     *)
(***************************************************************************)
ExitPlaneOp == "compute_object_spectrum_at_exit_plane"

DetectorPlaneOp == "compute_contrast_spectrum_at_detector_plane"

IntensityOp == "compute_intensity_spectrum_at_detector_plane"

\* The receiver of the last call.
Receiver == theories[theory_last.receiver]

IsLinearSuperposition(self) == self.cls = "LinearSuperpositionScatteringTheory"

\* The positions, among the calls the last operation made, of the calls of
\* the solvent model.
SolventInvocations ==
    {k \in DOMAIN theory_last.calls :
        theory_last.calls[k].callee \in
            {"solvent.compute_object_spectrum_with_ice",
             "solvent.sample_ice_phase_shift_spectrum"}}

\* What the operation of the last call returns for rng_key.
ResultWithKey(rng_key) ==
    IF theory_last.op = ExitPlaneOp
    THEN compute_object_spectrum_at_exit_plane(
             Receiver, theory_last.instrument_config, rng_key).result
    ELSE compute_contrast_spectrum_at_detector_plane(
             Receiver, theory_last.instrument_config, rng_key).result

\* C11: for both theories and both the exit-plane and the detector-plane
\* operation, the ice is part of the result if and only if rng_key is not
\* None and a solvent is configured: the call never raises, the solvent
\* model is invoked exactly in that case (never with rng_key None), and in
\* every other case the result is the result of the call with rng_key None.
C11_IceIffKeyAndSolvent ==
    theory_last.op \in {ExitPlaneOp, DetectorPlaneOp} =>
        LET with_ice == theory_last.rng_key # None /\ Receiver.solvent # None
        IN  /\ ~theory_last.raised
            /\ (SolventInvocations # {}) <=> with_ice
            /\ (theory_last.result # ResultWithKey(None)) <=> with_ice

\* A detector-plane call of a superposition theory without solvent, given
\* a key: the result is that of the call without key.
C11_Witness ==
    /\ theory_last.op = DetectorPlaneOp
    /\ IsLinearSuperposition(Receiver)
    /\ theory_last.rng_key # None
    /\ Receiver.solvent = None
    /\ ~theory_last.raised
    /\ theory_last.result = ResultWithKey(None)

\* The ice of the last call as the detector-plane path adds it: the sampled
\* ice spectrum through the transfer theory, with no defocus offset.
IceContrastAtDetectorPlane ==
    ContrastTransferTheoryCall(
        Receiver.transfer_theory,
        sample_ice_phase_shift_spectrum(
            Receiver.solvent[1], theory_last.rng_key,
            theory_last.instrument_config),
        theory_last.instrument_config, 0)

\* C12: a superposition theory with rng_key given and a solvent configured
\* invokes the solvent model exactly once per call, whatever the number of
\* subunits, and outside the map over the subunits; on the detector-plane
\* path the calls are one transfer per subunit, then the sampling of the
\* ice, then one transfer of the ice alone, and the result is the summed
\* subunit contrast plus that ice contrast.
C12_IceOncePerCall ==
    ( /\ theory_last.op \in {ExitPlaneOp, DetectorPlaneOp}
      /\ IsLinearSuperposition(Receiver)
      /\ theory_last.rng_key # None
      /\ Receiver.solvent # None ) =>
        LET K == Len(Receiver.assembly.subunits)
            calls == theory_last.calls
        IN  /\ Cardinality(SolventInvocations) = 1
            /\ \A k \in SolventInvocations : calls[k].subunit = 0
            /\ theory_last.op = DetectorPlaneOp =>
                /\ Len(calls) = K + 2
                /\ \A k \in 1..K : calls[k] = Invocation("transfer_theory", k, 0)
                /\ calls[K + 1] =
                       Invocation("solvent.sample_ice_phase_shift_spectrum", 0, 0)
                /\ calls[K + 2] = Invocation("transfer_theory", 0, 0)
                /\ theory_last.result =
                       FieldAdd(ResultWithKey(None), IceContrastAtDetectorPlane)

\* Both paths of a superposition over several subunits, with ice.
C12_Witness ==
    /\ theory_last.op = DetectorPlaneOp
    /\ IsLinearSuperposition(Receiver)
    /\ Len(Receiver.assembly.subunits) = MaxSubunits
    /\ theory_last.rng_key # None
    /\ Receiver.solvent # None
    /\ Cardinality(SolventInvocations) = 1
    /\ theory_last.result # ResultWithKey(None)

C12_WitnessExitPlane ==
    /\ theory_last.op = ExitPlaneOp
    /\ IsLinearSuperposition(Receiver)
    /\ Len(Receiver.assembly.subunits) = MaxSubunits
    /\ theory_last.rng_key # None
    /\ Receiver.solvent # None
    /\ Cardinality(SolventInvocations) = 1

\* The receiver of the last call with another batch of subunits.
WithSubunits(batch) == [Receiver EXCEPT !.assembly = [subunits |-> batch]]

\* What the operation of the last call, with its arguments, returns on
\* the theory self.
ResultOn(self) ==
    IF theory_last.op = ExitPlaneOp
    THEN compute_object_spectrum_at_exit_plane(
             self, theory_last.instrument_config, theory_last.rng_key).result
    ELSE compute_contrast_spectrum_at_detector_plane(
             self, theory_last.instrument_config, theory_last.rng_key).result

ZeroField(field) ==
    [i \in DOMAIN field |-> [j \in DOMAIN field[i] |-> Complex(0, 0)]]

\* C13: superposition linearity. Without rng_key, the exit-plane field of
\* an assembly of K identical subunits is, at every frequency bin, K times
\* the exit-plane field of the assembly of one such subunit.
C13_SuperpositionLinearity ==
    ( /\ theory_last.op = ExitPlaneOp
      /\ IsLinearSuperposition(Receiver)
      /\ theory_last.rng_key = None
      /\ \A k \in DOMAIN Receiver.assembly.subunits :
             Receiver.assembly.subunits[k] = Receiver.assembly.subunits[1] ) =>
        theory_last.result =
            FieldScale(Len(Receiver.assembly.subunits),
                       ResultOn(WithSubunits(<<Receiver.assembly.subunits[1]>>)))

\* The largest batch of identical, translated subunits, whose field is not
\* the field of one of them.
C13_Witness ==
    /\ theory_last.op = ExitPlaneOp
    /\ IsLinearSuperposition(Receiver)
    /\ theory_last.rng_key = None
    /\ Len(Receiver.assembly.subunits) = MaxSubunits
    /\ \A k \in DOMAIN Receiver.assembly.subunits :
           Receiver.assembly.subunits[k] = Receiver.assembly.subunits[1]
    /\ Receiver.assembly.subunits[1].pose.offset_x_in_angstroms # 0
    /\ theory_last.result # ResultOn(WithSubunits(<<Receiver.assembly.subunits[1]>>))
    /\ theory_last.result # ZeroField(theory_last.result)

\* The orders of a batch of K subunits.
BatchOrders(K) == {p \in [1..K -> 1..K] : \A i, j \in 1..K : p[i] = p[j] => i = j}

\* C14: order independence of the superposition. Listing the subunits of
\* the assembly in any other order leaves the exit-plane and the
\* detector-plane result unchanged.
C14_OrderIndependence ==
    ( /\ theory_last.op \in {ExitPlaneOp, DetectorPlaneOp}
      /\ IsLinearSuperposition(Receiver) ) =>
        \A order \in BatchOrders(Len(Receiver.assembly.subunits)) :
            ResultOn(WithSubunits([k \in DOMAIN order |->
                         Receiver.assembly.subunits[order[k]]]))
                = theory_last.result

\* A detector-plane call on a batch of two subunits whose fields differ.
C14_Witness ==
    /\ theory_last.op = DetectorPlaneOp
    /\ IsLinearSuperposition(Receiver)
    /\ Len(Receiver.assembly.subunits) >= 2
    /\ ResultOn(WithSubunits(<<Receiver.assembly.subunits[1]>>))
           # ResultOn(WithSubunits(<<Receiver.assembly.subunits[2]>>))

\* C15: the detector-plane spectrum of WeakPhaseScatteringTheory is the
\* transfer theory applied to what compute_object_spectrum_at_exit_plane
\* returns for the same instrument_config and rng_key, with defocus_offset
\* the pose's offset_z_in_angstroms; the transfer theory is called once,
\* last, with that offset.
C15_DetectorPlaneIsTransferOfExitPlane ==
    ( /\ theory_last.op = DetectorPlaneOp
      /\ ~IsLinearSuperposition(Receiver) ) =>
        LET offset_z == Receiver.structural_ensemble.pose.offset_z_in_angstroms
            exit_plane ==
                compute_object_spectrum_at_exit_plane(
                    Receiver, theory_last.instrument_config, theory_last.rng_key)
        IN  /\ theory_last.result =
                   ContrastTransferTheoryCall(
                       Receiver.transfer_theory, exit_plane.result,
                       theory_last.instrument_config, offset_z)
            /\ theory_last.calls =
                   Append(exit_plane.calls,
                          Invocation("transfer_theory", 0, offset_z))

\* A call with ice on a pose with an out-of-plane offset that changes the
\* transfer function.
C15_Witness ==
    /\ theory_last.op = DetectorPlaneOp
    /\ ~IsLinearSuperposition(Receiver)
    /\ theory_last.rng_key # None
    /\ Receiver.solvent # None
    /\ Receiver.structural_ensemble.pose.offset_z_in_angstroms # 0
    /\ theory_last.result #
           ContrastTransferTheoryCall(
               Receiver.transfer_theory,
               compute_object_spectrum_at_exit_plane(
                   Receiver, theory_last.instrument_config,
                   theory_last.rng_key).result,
               theory_last.instrument_config, 0)

\* C16: the intensity spectrum is twice the contrast spectrum of the same
\* call at every bin, plus N1 * N2 at the bin [0, 0] only.
C16_IntensitySpectrum ==
    theory_last.op = IntensityOp =>
        LET N1 == theory_last.instrument_config.padded_shape[1]
            N2 == theory_last.instrument_config.padded_shape[2]
            C == compute_contrast_spectrum_at_detector_plane(
                     Receiver, theory_last.instrument_config,
                     theory_last.rng_key).result
            I == theory_last.result
        IN  /\ DOMAIN I = DOMAIN C
            /\ \A i \in DOMAIN I :
                /\ DOMAIN I[i] = DOMAIN C[i]
                /\ \A j \in DOMAIN I[i] :
                       I[i][j] = IF i = 1 /\ j = 1
                                 THEN Complex(2 * C[i][j].re + N1 * N2,
                                              2 * C[i][j].im)
                                 ELSE Complex(2 * C[i][j].re, 2 * C[i][j].im)

\* An intensity spectrum of more than one bin, with N1 # N2 and a contrast
\* that is not zero away from [0, 0].
C16_Witness ==
    /\ theory_last.op = IntensityOp
    /\ theory_last.instrument_config.padded_shape[1]
           # theory_last.instrument_config.padded_shape[2]
    /\ theory_last.rng_key # None
    /\ \E i \in DOMAIN theory_last.result :
           \E j \in DOMAIN theory_last.result[i] :
               /\ <<i, j>> # <<1, 1>>
               /\ theory_last.result[i][j] # Complex(0, 0)

(***************************************************************************)
(* Properties of the wave transfer function.                               *)
(***************************************************************************)
\* C17: constructing a WaveTransferFunction fails exactly when the defocus
\* is <= 0 (zero is rejected) or the spherical aberration is < 0 (zero is
\* accepted): a failed construction leaves no object, a successful one
\* stores its arguments, and no object has a defocus <= 0 or a negative
\* spherical aberration.
C17_DefocusPositiveAberrationNonNegative ==
    /\ \A k \in DOMAIN transfer_functions :
           /\ transfer_functions[k].defocus_in_angstroms > 0
           /\ transfer_functions[k].spherical_aberration_in_mm >= 0
    /\ transfer_last.op = "WaveTransferFunction.__init__" =>
           /\ transfer_last.raised <=>
                  \/ transfer_last.arguments.defocus_in_angstroms <= 0
                  \/ transfer_last.arguments.spherical_aberration_in_mm < 0
           /\ transfer_last.raised => transfer_functions = <<>>
           /\ ~transfer_last.raised =>
                  transfer_functions = <<transfer_last.arguments>>

\* A construction that failed on a defocus of exactly zero, with a valid
\* spherical aberration.
C17_Witness ==
    /\ transfer_last.op = "WaveTransferFunction.__init__"
    /\ transfer_last.raised
    /\ transfer_last.arguments.defocus_in_angstroms = 0
    /\ transfer_last.arguments.spherical_aberration_in_mm >= 0

\* A construction that succeeded with a spherical aberration of zero.
C17_WitnessZeroAberration ==
    /\ transfer_last.op = "WaveTransferFunction.__init__"
    /\ ~transfer_last.raised
    /\ transfer_last.arguments.spherical_aberration_in_mm = 0
    /\ transfer_functions = <<transfer_last.arguments>>

\* The squared modulus of a complex number.
SquaredModulus(z) == z.re * z.re + z.im * z.im

\* C18: every element of the array WaveTransferFunction.__call__ returns
\* has modulus 1, for every constructed function, grid, wavelength and
\* defocus offset; WaveTransferTheory.__call__ returns a field of the shape
\* of its input whose elements have the moduli of the input's.
C18_UnitModulus ==
    /\ transfer_last.op = "WaveTransferFunction.__call__" =>
           \A i \in DOMAIN transfer_last.result :
               \A j \in DOMAIN transfer_last.result[i] :
                   SquaredModulus(transfer_last.result[i][j]) = 1
    /\ transfer_last.op = "WaveTransferTheory.__call__" =>
           LET input == transfer_last.fourier_wavefunction_at_exit_plane
               output == transfer_last.result
           IN  /\ DOMAIN output = DOMAIN input
               /\ \A i \in DOMAIN input :
                   /\ DOMAIN output[i] = DOMAIN input[i]
                   /\ \A j \in DOMAIN input[i] :
                          SquaredModulus(output[i][j]) = SquaredModulus(input[i][j])

\* A transfer function with an imaginary element, at a defocus offset.
C18_Witness ==
    /\ transfer_last.op = "WaveTransferFunction.__call__"
    /\ transfer_last.defocus_offset # 0
    /\ \E i \in DOMAIN transfer_last.result :
           \E j \in DOMAIN transfer_last.result[i] :
               transfer_last.result[i][j].im # 0

\* A field that the transfer theory changed, its moduli left alone.
C18_WitnessTheory ==
    /\ transfer_last.op = "WaveTransferTheory.__call__"
    /\ transfer_last.result # transfer_last.fourier_wavefunction_at_exit_plane

(***************************************************************************)
(* Properties of AbstractPotentialIntegrator.__call__.                     *)
(***************************************************************************)
\* What integrate_potential returns in the call.
IntegratedField ==
    integrate_potential(integration.self,
                        integration.specimen.potential_in_lab_frame)

\* The rescale branch applied to the integrated field.
RescaledField ==
    rfftn(rescale_to_pixel_size(
              integration.self.config,
              irfftn(IntegratedField, integration.self.config.padded_shape),
              integration.specimen.potential_in_lab_frame.voxel_size))

VoxelSizeIsClose ==
    isclose(integration.specimen.potential_in_lab_frame.voxel_size,
            integration.self.config.pixel_size)

\* C19: for a voxel potential whose voxel_size is close to the pixel size
\* the integrated field passes the reconciliation unchanged, through the
\* null branch; the rescale branch is taken only when the sizes differ and
\* are not close, and then the field is the rescaled one; one of the two
\* branches of jax.lax.cond is taken, chosen by isclose.
C19_ReconciliationNoOpOnMatch ==
    ( /\ integration.pc = "reconciled"
      /\ IsVoxelPotential(integration.specimen.potential_in_lab_frame) ) =>
        /\ VoxelSizeIsClose =>
               /\ integration.potential_at_exit_plane = IntegratedField
               /\ integration.steps = <<"integrate_potential", "null_fn">>
        /\ ~VoxelSizeIsClose =>
               /\ integration.potential_at_exit_plane = RescaledField
               /\ integration.steps = <<"integrate_potential", "rescale_fn">>
        /\ integration.steps[2] = "rescale_fn" =>
               integration.specimen.potential_in_lab_frame.voxel_size
                   # integration.self.config.pixel_size

\* A voxel size close to the pixel size and not equal to it: the field is
\* the integrated one, which the rescale branch would have changed.
C19_Witness ==
    /\ integration.pc = "reconciled"
    /\ IsVoxelPotential(integration.specimen.potential_in_lab_frame)
    /\ VoxelSizeIsClose
    /\ integration.specimen.potential_in_lab_frame.voxel_size
           # integration.self.config.pixel_size
    /\ integration.potential_at_exit_plane = IntegratedField
    /\ RescaledField # IntegratedField

\* A voxel size just outside the tolerance: the field was rescaled.
C19_WitnessRescaled ==
    /\ integration.pc = "reconciled"
    /\ IsVoxelPotential(integration.specimen.potential_in_lab_frame)
    /\ integration.specimen.potential_in_lab_frame.voxel_size = Angstrom + 20
    /\ integration.steps[2] = "rescale_fn"
    /\ integration.potential_at_exit_plane # IntegratedField

\* C20 as claimed: for every potential and every strategy the call
\* integrates, then reconciles the voxel size, then multiplies once by the
\* translational phase shifts; the reconciliation is skipped for no
\* potential representation.
C20_BothStepsForEveryPotential ==
    integration.pc = "done" =>
        /\ Len(integration.steps) = 3
        /\ integration.steps[1] = "integrate_potential"
        /\ integration.steps[2] \in {"null_fn", "rescale_fn"}
        /\ integration.steps[3] = "compute_shifts"

\* The translational phase shifts of the call, on the padded grid.
TranslationalPhaseShifts ==
    compute_shifts(integration.specimen.pose,
                   padded_frequency_grid_in_angstroms(integration.self.config))

\* C20 as amended: for every strategy the call integrates, then reconciles
\* the voxel size if and only if the potential is an AbstractVoxelPotential
\* (for any other potential representation the step is skipped), and only
\* then multiplies the field, exactly once, by the translational phase
\* shifts on the padded frequency grid.
C20_StepsInOrder ==
    LET potential == integration.specimen.potential_in_lab_frame
        reconciliation ==
            IF IsVoxelPotential(potential)
            THEN <<IF VoxelSizeIsClose THEN "null_fn" ELSE "rescale_fn">>
            ELSE <<>>
        reconciled ==
            IF IsVoxelPotential(potential) /\ ~VoxelSizeIsClose
            THEN RescaledField
            ELSE IntegratedField
    IN  /\ integration.pc = "integrated" =>
               integration.steps = <<"integrate_potential">>
        /\ integration.pc = "reconciled" =>
               /\ integration.steps = <<"integrate_potential">> \o reconciliation
               /\ integration.potential_at_exit_plane = reconciled
        /\ integration.pc = "done" =>
               /\ integration.steps =
                      <<"integrate_potential">> \o reconciliation
                          \o <<"compute_shifts">>
               /\ integration.potential_at_exit_plane =
                      FieldMul(reconciled, TranslationalPhaseShifts)

\* A finished call on an atom potential at a translated pose: no
\* reconciliation, one translation.
C20_Witness ==
    /\ integration.pc = "done"
    /\ ~IsVoxelPotential(integration.specimen.potential_in_lab_frame)
    /\ integration.specimen.pose.offset_x_in_angstroms # 0
    /\ integration.steps = <<"integrate_potential", "compute_shifts">>
    /\ integration.potential_at_exit_plane # IntegratedField

\* A finished call on a voxel potential that was rescaled, then translated.
C20_WitnessVoxel ==
    /\ integration.pc = "done"
    /\ IsVoxelPotential(integration.specimen.potential_in_lab_frame)
    /\ integration.specimen.pose.offset_x_in_angstroms # 0
    /\ integration.steps = <<"integrate_potential", "rescale_fn", "compute_shifts">>
    /\ integration.potential_at_exit_plane # RescaledField


(***************************************************************************)
(* Properties of the 1D integrals and of their recombination.              *)
(***************************************************************************)
IntegralsEvaluated == pc \in {"integrals", "raised", "map", "remainder", "done"}

\* The 1D integrals of one axis (1 = x, 2 = y, 3 = z) of the call in
\* progress, without any prefactor: entry [i][n][g] is the integral of
\* gaussian g of atom n over voxel i of that axis.
AxisGrid(axis) == <<grids.x, grids.y, grids.z>>[axis]

AxisIntegrals(axis) ==
    integration_kernel_1d(
        EdgeOffsets(AxisGrid(axis), args.atom_positions, axis, args.voxel_size),
        Scaling(args.b), args.voxel_size)

\* sum over atoms n and gaussians g of
\* prefactor[n, g] * X[x, n, g] * Y[y, n, g] * Z[k, n, g]
SumOfProducts(k, y, x) ==
    LET X == AxisIntegrals(1)
        Y == AxisIntegrals(2)
        Z == AxisIntegrals(3)
        prefactor == Prefactor(args.a, args.voxel_size)
    IN  SumSeq([n \in DOMAIN args.a |->
            SumSeq([g \in DOMAIN args.a[n] |->
                prefactor[n][g] * X[x][n][g] * Y[y][n][g] * Z[k][n][g]])])

\* C23: recombination correctness. Every z plane of the returned grid holds,
\* at each (y, x), the sum over atoms n and gaussian components g of
\* X[x,n,g] * Y[y,n,g] * Z[n,g]; the prefactor 4*pi*a / (2*voxel_size)^3
\* enters each (atom, component) term exactly once: it is folded into the x
\* integrals, and the y and z integrals carry none.
C23_RecombinationCorrectness ==
    /\ IntegralsEvaluated =>
           /\ integrals.y = AxisIntegrals(2)
           /\ integrals.z = AxisIntegrals(3)
           /\ \A i \in DOMAIN integrals.x : \A n \in DOMAIN args.a :
                  \A g \in DOMAIN args.a[n] :
                      integrals.x[i][n][g] =
                          Prefactor(args.a, args.voxel_size)[n][g]
                              * AxisIntegrals(1)[i][n][g]
    /\ pc = "done" =>
           \A k \in 1..z_dim : \A y \in 1..y_dim : \A x \in 1..x_dim :
               potential_as_voxel_grid[k][y][x] = SumOfProducts(k, y, x)

\* A finished call on two atoms in which some term has a prefactor other
\* than 0 and 1 and three non-zero 1D integrals.
C23_Witness ==
    /\ pc = "done"
    /\ Len(args.atom_positions) = 2
    /\ \E k \in 1..z_dim, y \in 1..y_dim, x \in 1..x_dim :
           /\ potential_as_voxel_grid[k][y][x] # 0
           /\ \E n \in DOMAIN args.a : \E g \in DOMAIN args.a[n] :
                  /\ Prefactor(args.a, args.voxel_size)[n][g] \notin {0, 1}
                  /\ AxisIntegrals(1)[x][n][g] # 0
                  /\ AxisIntegrals(2)[y][n][g] # 0
                  /\ AxisIntegrals(3)[k][n][g] # 0


\* The three arrays of 1D integrals of the call in progress, by axis.
StoredIntegrals(axis) == <<integrals.x, integrals.y, integrals.z>>[axis]

\* What multiplies the 1D integral of gaussian g of atom n on an axis: the
\* prefactor on x, nothing on y and z.
Weight(axis, n, g) ==
    IF axis = 1 THEN Prefactor(args.a, args.voxel_size)[n][g] ELSE 1

\* The offsets from atom n of the lower and the upper edge of voxel i.
LowerEdge(axis, i, n) ==
    (AxisGrid(axis)[i] - args.voxel_size \div 2) - args.atom_positions[n][axis]

UpperEdge(axis, i, n) == LowerEdge(axis, i, n) + args.voxel_size

\* The integral of gaussian g of atom n between two edge offsets.
IntegralBetween(lower, upper, n, g) ==
    Erf(Scaling(args.b)[n][g] * upper) - Erf(Scaling(args.b)[n][g] * lower)

\* C24: voxel edges tile each axis. The 1D integral of voxel i is taken
\* between c - voxel_size/2 - p and that plus voxel_size; the upper edge of
\* voxel i is the lower edge of voxel i + 1; and the integrals of the
\* consecutive voxels i..j add up to the one integral from the lower edge
\* of i to the upper edge of j.
C24_VoxelEdgesTile ==
    IntegralsEvaluated =>
        \A axis \in 1..3 : \A n \in DOMAIN args.atom_positions :
            LET stored == StoredIntegrals(axis)
                dim == Len(stored)
            IN  /\ dim = Len(AxisGrid(axis))
                /\ \A i \in 1..(dim - 1) :
                       UpperEdge(axis, i, n) = LowerEdge(axis, i + 1, n)
                /\ \A g \in DOMAIN args.a[n] :
                       /\ \A i \in 1..dim :
                              stored[i][n][g] =
                                  Weight(axis, n, g)
                                    * IntegralBetween(LowerEdge(axis, i, n),
                                                      UpperEdge(axis, i, n), n, g)
                       /\ \A i \in 1..dim : \A j \in i..dim :
                              SumSeq([v \in 1..(j - i + 1) |-> stored[i + v - 1][n][g]]) =
                                  Weight(axis, n, g)
                                    * IntegralBetween(LowerEdge(axis, i, n),
                                                      UpperEdge(axis, j, n), n, g)

\* Integrals evaluated on a z axis of at least three voxels, three
\* consecutive ones of which are non-zero for some gaussian of some atom.
C24_Witness ==
    /\ IntegralsEvaluated
    /\ z_dim >= 3
    /\ \E n \in DOMAIN args.atom_positions : \E g \in DOMAIN args.a[n] :
           \E i \in 1..(z_dim - 2) :
               /\ integrals.z[i][n][g] # 0
               /\ integrals.z[i + 1][n][g] # 0
               /\ integrals.z[i + 2][n][g] # 0


(***************************************************************************)
(* The defocus a constructed wave transfer function is used with.          *)
(***************************************************************************)
\* The two defocus values WaveTransferFunction.__call__ hands to
\* compute_phase_shifts (lines 76-84).
DefocusAxis1(self, defocus_offset) == self.defocus_in_angstroms + defocus_offset

DefocusAxis2(self, defocus_offset) ==
    self.defocus_in_angstroms + self.astigmatism_in_angstroms + defocus_offset

\* C25: defocus stays positive in use. In every call of a successfully
\* constructed WaveTransferFunction, with any defocus_offset, the defocus
\* of axis 1 (defocus + defocus_offset) and of axis 2 (defocus +
\* astigmatism + defocus_offset) are both strictly positive.
C25_DefocusPositiveInUse ==
    (transfer_functions # <<>> /\ transfer_last.op = "WaveTransferFunction.__call__") =>
        /\ ~transfer_last.raised =>
               DefocusAxis1(transfer_functions[1], transfer_last.defocus_offset) > 0
        /\ ~transfer_last.raised =>
               DefocusAxis2(transfer_functions[1], transfer_last.defocus_offset) > 0


(***************************************************************************)
(* The two scattering theories on a single subunit.                        *)
(***************************************************************************)
\* The WeakPhaseScatteringTheory built from the one subunit of the
\* receiver's assembly and the receiver's integrator, transfer theory and
\* solvent.
WeakPhaseTheoryOfSubunit(self) ==
    [cls |-> "WeakPhaseScatteringTheory",
     structural_ensemble |-> self.assembly.subunits[1],
     potential_integrator |-> self.potential_integrator,
     transfer_theory |-> self.transfer_theory,
     solvent |-> self.solvent]

SingleSubunitCall ==
    /\ theory_last.op = DetectorPlaneOp
    /\ IsLinearSuperposition(Receiver)
    /\ Len(Receiver.assembly.subunits) = 1
    /\ ~Receiver.potential_integrator.is_integration_complex
    /\ theory_last.rng_key = None

\* C26: single-subunit equivalence. For an assembly of exactly one subunit
\* and no rng_key, the detector-plane contrast spectrum of
\* LinearSuperpositionScatteringTheory equals that of
\* WeakPhaseScatteringTheory on the subunit's structural ensemble, for
\* every pose, a non-zero out-of-plane offset included: the subunit's field
\* is propagated with the defocus offset of its pose.
C26_SingleSubunitEquivalence ==
    SingleSubunitCall =>
        /\ theory_last.result =
               WeakPhaseDetectorPlane(WeakPhaseTheoryOfSubunit(Receiver),
                                      theory_last.instrument_config, None).result
        /\ \A k \in DOMAIN theory_last.calls :
               theory_last.calls[k].callee = "transfer_theory" =>
                   theory_last.calls[k].defocus_offset =
                       Receiver.assembly.subunits[1].pose.offset_z_in_angstroms


(***************************************************************************)
(* Properties of viewing and of the pose transforms.                       *)
(***************************************************************************)
\* C22: viewing never mutates. Cloud.view(pose) and Specimen.view(pose)
\* return a new object and leave every field of the receiver as it was; the
\* returned Cloud has the receiver's box_size and real (only coordinates and
\* density may differ) and the returned Specimen has the receiver's
\* resolution (only density may differ).
C22_ViewingNeverMutates ==
    /\ view_last.op = "Cloud.view" =>
           /\ cloud = view_last.receiver
           /\ DOMAIN view_last.result = DOMAIN view_last.receiver
           /\ view_last.result.box_size = view_last.receiver.box_size
           /\ view_last.result.real = view_last.receiver.real
    /\ view_last.op = "Specimen.view" =>
           /\ the_specimen = view_last.receiver
           /\ DOMAIN view_last.result = DOMAIN view_last.receiver
           /\ view_last.result.resolution = view_last.receiver.resolution

\* A Fourier-mode cloud viewed at a pose that changes both its density and
\* its coordinates.
C22_Witness ==
    /\ view_last.op = "Cloud.view"
    /\ ~view_last.receiver.real
    /\ view_last.result.density # view_last.receiver.density
    /\ view_last.result.coordinates # view_last.receiver.coordinates
    /\ cloud = view_last.receiver

\* A specimen viewed at a pose that changes its density.
C22_WitnessSpecimen ==
    /\ view_last.op = "Specimen.view"
    /\ view_last.result.density # view_last.receiver.density
    /\ the_specimen = view_last.receiver

\* The rotation of the quaternion q alone, as rotate_and_translate_wxyz
\* applies it.
RotatedWithoutOffset(points, q) ==
    rotate_and_translate_wxyz(points, 0, 0, q[1], q[2], q[3], q[4])

\* C29: quaternion convention consistency. rotate_wxyz with inverse=False
\* applies the rotation rotate_and_translate_wxyz applies for the same
\* quaternion and zero offsets, and with inverse=True its inverse; the
\* default QuaternionPose leaves the coordinates of a cloud unchanged in
\* both transform modes.
C29_QuaternionConvention ==
    /\ (view_last.op = "rotate_wxyz" /\ ~view_last.inverse) =>
           ReshapeToPoints(view_last.result) =
               RotatedWithoutOffset(ReshapeToPoints(view_last.coords), view_last.wxyz)
    /\ (view_last.op = "rotate_wxyz" /\ view_last.inverse) =>
           RotatedWithoutOffset(ReshapeToPoints(view_last.result), view_last.wxyz) =
               ReshapeToPoints(view_last.coords)
    /\ (view_last.op = "Cloud.view" /\ view_last.pose = DefaultQuaternionPose) =>
           view_last.result.coordinates = view_last.receiver.coordinates

(***************************************************************************)
(* Claims on the image models.                                             *)
(***************************************************************************)
ImageModelCalled ==
    image_last.op \in {"cryojax.Image.__call__", "jax_2dtm.ImageModel.__call__"}

\* sample, or log_likelihood, of the model with the parameters updated
SampleWithUpdatedParameters(self, params) ==
    IF self.module = "cryojax"
    THEN Returned(cryojax_sample(self, Some(update(self.state, params)),
                                 Some(update(self.scattering, params)),
                                 Some(update(self.specimen, params))))
    ELSE Returned(jax_2dtm_sample(self, update(self.state, params)))

LogLikelihoodWithUpdatedParameters(self, params) ==
    IF self.module = "cryojax"
    THEN cryojax_log_likelihood(self, Some(update(self.state, params)),
                                Some(update(self.scattering, params)),
                                Some(update(self.specimen, params)))
    ELSE jax_2dtm_log_likelihood(self, self.observed[1], update(self.state, params))

\* C21: a call of an image model with a parameter set comes to what sample
\* with the updated parameters comes to when the model stores no observed
\* data, and to what log_likelihood with the updated parameters comes to
\* when it stores some; the model is after the call what it was before.
C21_CallDispatchesOnObserved ==
    ImageModelCalled =>
        /\ [raised |-> image_last.raised, value |-> image_last.value]
               = IF image_last.receiver.observed = None
                 THEN SampleWithUpdatedParameters(image_last.receiver,
                                                  image_last.params)
                 ELSE LogLikelihoodWithUpdatedParameters(image_last.receiver,
                                                         image_last.params)
        /\ images = <<image_last.receiver>>

\* A cryojax GaussianImage storing observed data was called with a new pose
\* and returned a likelihood.
C21_Witness ==
    /\ image_last.op = "cryojax.Image.__call__"
    /\ image_last.receiver.cls = "GaussianImage"
    /\ image_last.receiver.observed # None
    /\ "pose" \in DOMAIN image_last.params
    /\ image_last.raised = None
    /\ image_last.value[1].op = "gaussian_loss"

\* A jax_2dtm model storing no observed data was called with a new pose and
\* returned a sample.
C21_WitnessSample ==
    /\ image_last.op = "jax_2dtm.ImageModel.__call__"
    /\ image_last.receiver.observed = None
    /\ "pose" \in DOMAIN image_last.params
    /\ image_last.raised = None

\* The model that stores the parameter-updated copies of its state, its
\* scattering configuration and its specimen.
StoringUpdatedCopies(self, params) ==
    [self EXCEPT !.state = update(@, params),
                 !.scattering = update(@, params),
                 !.specimen = update(@, params)]

\* C27: what a call of a cryojax image model with a parameter set comes to
\* is computed from the updated state, scattering configuration and
\* specimen: it is what sample, or log_likelihood, comes to on a model
\* that stores the updated copies.
C27_OverridesHonoured ==
    image_last.op = "cryojax.Image.__call__" =>
        [raised |-> image_last.raised, value |-> image_last.value]
            = IF image_last.receiver.observed = None
              THEN Returned(cryojax_sample(
                                StoringUpdatedCopies(image_last.receiver,
                                                     image_last.params),
                                None, None, None))
              ELSE cryojax_log_likelihood(
                       StoringUpdatedCopies(image_last.receiver, image_last.params),
                       None, None, None)

ImageModelConstructed ==
    /\ image_last.op \in {"cryojax.Image.__init__", "jax_2dtm.ImageModel.__init__"}
    /\ image_last.raised = None

\* The default list of filters of the module of the model.
DefaultFilters(model) ==
    IF model.module = "cryojax"
    THEN <<cryojax_AntiAliasingFilter(padded_freqs(model.scattering))>>
    ELSE <<jax_2dtm_AntiAliasingFilter(model.config, model.freqs)>>

\* The filters an image went through, the first applied first.
RECURSIVE FiltersApplied(_)
FiltersApplied(image) ==
    IF image.op = "filter"
    THEN Append(FiltersApplied(image.image), image.filter)
    ELSE <<>>

\* The scattering image of the model before any crop or mask.
RenderedScatteringImage(model) ==
    IF model.module = "cryojax"
    THEN cryojax_ScatteringImage_render(model, None, None, None, FALSE)
    ELSE jax_2dtm_ScatteringImage_render(model, model.state)

\* C28: a constructed image model of either module stores the default
\* AntiAliasingFilter list when it was given no list of filters and the
\* list it was given otherwise, the empty list included, and its render
\* applies the filters of the list it was given, in the order of the list.
C28_DefaultFilterOnlyWhenNoneGiven ==
    ImageModelConstructed =>
        /\ images[1].filters = IF image_last.filters = None
                               THEN DefaultFilters(images[1])
                               ELSE image_last.filters[1]
        /\ image_last.filters # None =>
               FiltersApplied(RenderedScatteringImage(images[1]))
                   = image_last.filters[1]

\* What ScatteringImage.__post_init__ comes to on the arguments of the
\* construction last made.
AsScatteringImageInitialises ==
    jax_2dtm_ScatteringImage_post_init(
        [cls |-> image_last.cls, state |-> image_last.state,
         config |-> image_last.config, cloud |-> image_last.cloud],
        image_last.observed, image_last.filters)

\* C30: the construction of a jax_2dtm GaussianImage whose state has a
\* gaussian noise, with arguments ScatteringImage.__post_init__ accepts,
\* raises nothing and leaves freqs, observed and filters as
\* ScatteringImage.__post_init__ sets them; with a noise that is not
\* gaussian it fails on the assertion.
C30_GaussianImageConstructible ==
    (image_last.op = "jax_2dtm.ImageModel.__init__" /\ image_last.cls = "GaussianImage") =>
        IF IsGaussianNoise(image_last.state.noise)
        THEN AsScatteringImageInitialises.raised = None =>
                 /\ image_last.raised = None
                 /\ images = AsScatteringImageInitialises.value
        ELSE image_last.raised = Some("AssertionError")

=============================================================================
